---- MODULE Spec2Model ----
(***************************************************************************)
(* The CSV bulk import of the PMKSY survey wizard: row preparation, type   *)
(* conversion, foreign-key resolution, per-row persistence and the         *)
(* accumulation of a capped error list (pmksy/importers.py and its twin    *)
(* data_wizard/importers.py, whose bodies are line-for-line the same).     *)
(*                                                                         *)
(* A Python str is modelled as a sequence of one-character strings, so     *)
(* that strip(), lower(), f-string concatenation and "x in message" are    *)
(* computed and not assumed.                                               *)
(***************************************************************************)
EXTENDS Integers, Sequences, FiniteSets, TLC

VARIABLES pc, target, parsed_rows, index, created, skipped, errors,
          summary, store, store_before, uuid4_calls, range_validated,
          outcome, errored,
          call, returned, session, response, wizard,
          survey_records

\* The state of one perform_import call and of the database.
import_vars == <<pc, target, parsed_rows, index, created, skipped, errors,
                 summary, store, store_before, uuid4_calls, range_validated,
                 outcome, errored>>

\* A call of a module-level function with its argument, and what it gave.
call_vars == <<call, returned>>

\* The session entry of the bulk import wizard, the last response of a view,
\* the session entry of the survey wizard and the records of the models
\* that only the survey wizard writes.
view_vars == <<session, response, wizard, survey_records>>

vars == <<pc, target, parsed_rows, index, created, skipped, errors,
          summary, store, store_before, uuid4_calls, range_validated,
          outcome, errored, call, returned, session, response,
          wizard, survey_records>>

---------------------------------------------------------------------------
\* Bounds of the model.

\* Longest batch whose rows are all drawn freely from the row pool.
MaxRows == 2

\* Length of the uniform tail of a long batch (longer than the error cap).
LongRows == 60

---------------------------------------------------------------------------
\* Text helpers (Python str methods used by the importer).

WhitespaceChars == {" ", "\t", "\n", "\r"}

UpperLetters == <<"A","B","C","D","E","F","G","H","I","J","K","L","M",
                  "N","O","P","Q","R","S","T","U","V","W","X","Y","Z">>

LowerLetters == <<"a","b","c","d","e","f","g","h","i","j","k","l","m",
                  "n","o","p","q","r","s","t","u","v","w","x","y","z">>

DigitChars == <<"0","1","2","3","4","5","6","7","8","9">>

HexChars == {"0","1","2","3","4","5","6","7","8","9",
             "a","b","c","d","e","f","A","B","C","D","E","F"}

IsDigit(c) == \E i \in 1..10 : DigitChars[i] = c

DigitValue(c) == (CHOOSE i \in 1..10 : DigitChars[i] = c) - 1

\* str.lower() on one character.
LowerChar(c) ==
    IF \E i \in 1..26 : UpperLetters[i] = c
    THEN LowerLetters[CHOOSE i \in 1..26 : UpperLetters[i] = c]
    ELSE c

\* str.upper() on one character.
UpperChar(c) ==
    IF \E i \in 1..26 : LowerLetters[i] = c
    THEN UpperLetters[CHOOSE i \in 1..26 : LowerLetters[i] = c]
    ELSE c

\* str.lower()
lower(t) == [i \in 1..Len(t) |-> LowerChar(t[i])]

RECURSIVE lstrip(_)
lstrip(t) ==
    IF t # <<>> /\ Head(t) \in WhitespaceChars THEN lstrip(Tail(t)) ELSE t

RECURSIVE rstrip(_)
rstrip(t) ==
    IF t # <<>> /\ t[Len(t)] \in WhitespaceChars
    THEN rstrip(SubSeq(t, 1, Len(t) - 1))
    ELSE t

\* str.strip()
strip(t) == rstrip(lstrip(t))

\* str.replace(c, "") for a one-character c.
RECURSIVE remove_char(_, _)
remove_char(t, c) ==
    IF t = <<>> THEN <<>>
    ELSE IF Head(t) = c THEN remove_char(Tail(t), c)
         ELSE <<Head(t)>> \o remove_char(Tail(t), c)

\* str.replace(a, b) for one-character a and b.
replace_char(t, a, b) == [i \in 1..Len(t) |-> IF t[i] = a THEN b ELSE t[i]]

\* django.utils.text.capfirst
capfirst(t) == IF t = <<>> THEN t ELSE <<UpperChar(Head(t))>> \o Tail(t)

\* str.startswith
StartsWith(t, p) == Len(p) <= Len(t) /\ SubSeq(t, 1, Len(p)) = p

\* "p in t" for two strs.
Contains(t, p) ==
    \E i \in 0..(Len(t) - Len(p)) : SubSeq(t, i + 1, i + Len(p)) = p

\* ", ".join(parts) and "; ".join(parts)
RECURSIVE join(_, _)
join(sep, parts) ==
    IF parts = <<>> THEN <<>>
    ELSE IF Len(parts) = 1 THEN parts[1]
         ELSE parts[1] \o sep \o join(sep, Tail(parts))

---------------------------------------------------------------------------
\* Module constants of importers.py.

EMPTY_STRINGS == { <<>>, <<"n","a">>, <<"n","/","a">>, <<"n","u","l","l">>, <<"n","o","n","e">>, <<"n","i","l">>, <<"n","a","n">> }

MAX_ERRORS_REPORTED == 50

\* Python's None where a str is expected (row.get of an absent column).
None == <<"None">>

\* Typed values held by payloads and records: every value has the same
\* shape, the tag tells the Python type.
V(tag, text, num, e) == [tag |-> tag, text |-> text, num |-> num, exp |-> e]
NoneV == V("None", <<>>, 0, 0)
StrV(t) == V("str", t, 0, 0)
IntV(n) == V("int", <<>>, n, 0)
\* Decimal as Decimal.as_tuple(): num is the sign (0 or 1), text the digit
\* tuple, exp the exponent.
DecV(sign, digits, e) == V("Decimal", digits, sign, e)
\* uuid.UUID: the 32 hex digits in canonical (lower) case.
UuidV(hex) == V("UUID", hex, 0, 0)

---------------------------------------------------------------------------
\* The record schema (pmksy/models.py).  Of each model the fields of every
\* kind the importer distinguishes are kept; the remaining fields repeat
\* these kinds.

Field(name, kind, pk, blank, null, related) ==
    [name |-> name, kind |-> kind, primary_key |-> pk, blank |-> blank,
     null |-> null, related |-> related]

ModelNames == {"Farmer", "LandHolding", "Asset"}

\* Model.__name__
ClassName(m) ==
    CASE m = "Farmer" -> <<"F","a","r","m","e","r">>
      [] m = "LandHolding" -> <<"L","a","n","d","H","o","l","d","i","n","g">>
      [] m = "Asset" -> <<"A","s","s","e","t">>

\* Model._meta.verbose_name
ModelVerboseName(m) ==
    CASE m = "Farmer" -> <<"f","a","r","m","e","r">>
      [] m = "LandHolding" -> <<"l","a","n","d"," ","h","o","l","d","i","n","g">>
      [] m = "Asset" -> <<"a","s","s","e","t">>

\* The declared fields of each model, in declaration order.
FieldDeclarations(m) ==
    CASE m = "Farmer" ->
           << Field(<<"f","a","r","m","e","r","_","i","d">>, "UUIDField", TRUE, FALSE, FALSE, ""),
              Field(<<"n","a","m","e">>, "CharField", FALSE, FALSE, FALSE, ""),
              Field(<<"d","i","s","t","r","i","c","t">>, "CharField", FALSE, TRUE, FALSE, ""),
              Field(<<"f","a","r","m","i","n","g","_","e","x","p","e","r","i","e","n","c","e","_","y","e","a","r","s">>, "PositiveIntegerField",
                    FALSE, FALSE, FALSE, "") >>
      [] m = "LandHolding" ->
           << Field(<<"l","a","n","d","_","i","d">>, "UUIDField", TRUE, FALSE, FALSE, ""),
              Field(<<"f","a","r","m","e","r">>, "ForeignKey", FALSE, FALSE, FALSE, "Farmer"),
              Field(<<"c","a","t","e","g","o","r","y">>, "CharField", FALSE, TRUE, FALSE, ""),
              Field(<<"t","o","t","a","l","_","a","r","e","a","_","h","a">>, "DecimalField", FALSE, TRUE, TRUE, "") >>
      [] m = "Asset" ->
           << Field(<<"a","s","s","e","t","_","i","d">>, "UUIDField", TRUE, FALSE, FALSE, ""),
              Field(<<"f","a","r","m","e","r">>, "ForeignKey", FALSE, FALSE, FALSE, "Farmer"),
              Field(<<"i","t","e","m","_","n","a","m","e">>, "CharField", FALSE, FALSE, FALSE, ""),
              Field(<<"q","u","a","n","t","i","t","y">>, "PositiveIntegerField", FALSE, FALSE, FALSE, "") >>

MODEL_FIELDS == [m \in ModelNames |-> FieldDeclarations(m)]

\* Model._meta.get_fields()
ModelFields(m) == MODEL_FIELDS[m]

\* Model._meta.get_field(name)
get_field(m, name) ==
    LET fs == ModelFields(m)
    IN fs[CHOOSE i \in 1..Len(fs) : fs[i].name = name]

\* Model._meta.pk
PkField(m) ==
    LET fs == ModelFields(m)
    IN fs[CHOOSE i \in 1..Len(fs) : fs[i].primary_key]

\* Field.attname: a ForeignKey stores "<name>_id".
attname(f) == IF f.kind = "ForeignKey" THEN f.name \o <<"_","i","d">> ELSE f.name

\* Field.verbose_name, derived from the field name.
verbose_name(f) == replace_char(f.name, "_", " ")

\* DecimalField(max_digits=10, decimal_places=2)
MaxDigits == 10
DecimalPlaces == 2

\* build_field_map: the ordered pairs <<column, field name>>.
build_field_map(m) ==
    LET fs == ModelFields(m)
    IN [i \in 1..Len(fs) |->
          IF fs[i].kind = "ForeignKey"
          THEN <<fs[i].name \o <<"_","i","d">>, fs[i].name>>
          ELSE <<fs[i].name, fs[i].name>>]

\* TARGET_DEFINITIONS / IMPORT_TARGETS
TargetKeys == {"farmers", "land_holdings", "assets"}

TargetDefinition(key) ==
    CASE key = "farmers" ->
           [key |-> key, model |-> "Farmer",
            field_map |-> build_field_map("Farmer"),
            required |-> {<<"n","a","m","e">>}]
      [] key = "land_holdings" ->
           [key |-> key, model |-> "LandHolding",
            field_map |-> build_field_map("LandHolding"),
            required |-> {<<"f","a","r","m","e","r","_","i","d">>}]
      [] key = "assets" ->
           [key |-> key, model |-> "Asset",
            field_map |-> build_field_map("Asset"),
            required |-> {<<"f","a","r","m","e","r","_","i","d">>, <<"i","t","e","m","_","n","a","m","e">>}]

IMPORT_TARGETS == [key \in TargetKeys |-> TargetDefinition(key)]

\* get_target(key), for a key of the registry.
ImportTarget(key) == IMPORT_TARGETS[key]

---------------------------------------------------------------------------
\* Type conversion.

\* is_empty without the case folding.
is_empty_case_sensitive(value) ==
    IF value = None THEN TRUE
    ELSE LET stripped == strip(value)
         IN IF stripped # <<>> THEN stripped \in EMPTY_STRINGS ELSE TRUE

\* is_empty: None, blank after strip(), or a token of EMPTY_STRINGS.
is_empty(value) ==
    IF value = None THEN TRUE
    ELSE LET stripped == strip(value)
         IN IF stripped # <<>> THEN lower(stripped) \in EMPTY_STRINGS ELSE TRUE

\* The result of a call that either returns a value or raises.
Ok(v) == [ok |-> TRUE, value |-> v, exc |-> "", message |-> <<>>]
Err(exc, message) == [ok |-> FALSE, value |-> NoneV, exc |-> exc, message |-> message]

\* A call of a module-level function, and what its caller sees of it: the
\* value it returns or the ValueError it raises.
Call(fn, arg) == [fn |-> fn, arg |-> arg]

Returns(value) == [kind |-> "return", value |-> value, message |-> <<>>]
Raises(message) == [kind |-> "raise", value |-> <<>>, message |-> message]

Outcome_of(result) ==
    IF result.ok THEN Returns(result.value) ELSE Raises(result.message)

\* No function has been called.
NoCall == Call("none", <<>>)

NoReturn == [kind |-> "none", value |-> <<>>, message |-> <<>>]

\* repr() of a str without quotes in it.
repr(t) == <<"'">> \o t \o <<"'">>

AllDigits(t) == \A i \in 1..Len(t) : IsDigit(t[i])

RECURSIVE DigitsToNat(_)
DigitsToNat(t) ==
    IF t = <<>> THEN 0
    ELSE 10 * DigitsToNat(SubSeq(t, 1, Len(t) - 1)) + DigitValue(t[Len(t)])

Unsigned(t) == IF t # <<>> /\ Head(t) \in {"+", "-"} THEN Tail(t) ELSE t

\* int(value): surrounding whitespace, an optional sign, decimal digits.
parse_int(value) ==
    LET s == strip(value)
        body == Unsigned(s)
    IN IF body # <<>> /\ AllDigits(body)
       THEN Ok(IntV(IF Head(s) = "-" THEN 0 - DigitsToNat(body) ELSE DigitsToNat(body)))
       ELSE Err("ValueError", <<"i","n","v","a","l","i","d"," ","l","i","t","e","r","a","l"," ","f","o","r"," ","i","n","t","(",")"," ","w","i","t","h"," ","b","a","s","e"," ","1","0",":"," ">> \o repr(value))

RECURSIVE StripLeadingZeros(_)
StripLeadingZeros(t) ==
    IF Len(t) > 1 /\ Head(t) = "0" THEN StripLeadingZeros(Tail(t)) ELSE t

\* parse_decimal without its try/except: InvalidOperation escapes.
parse_decimal_uncaught(value) ==
    LET cleaned == remove_char(value, ",")
        s == strip(cleaned)
        body == Unsigned(s)
        dots == {i \in 1..Len(body) : body[i] = "."}
        digits == remove_char(body, ".")
        frac == IF dots = {} THEN 0 ELSE Len(body) - (CHOOSE i \in dots : TRUE)
    IN IF Cardinality(dots) <= 1 /\ digits # <<>> /\ AllDigits(digits)
       THEN Ok(DecV(IF Head(s) = "-" THEN 1 ELSE 0, StripLeadingZeros(digits), 0 - frac))
       ELSE Err("InvalidOperation", <<"[","<","c","l","a","s","s"," ","'","d","e","c","i","m","a","l",".","C","o","n","v","e","r","s","i","o","n","S","y","n","t","a","x","'",">","]">>)

\* parse_decimal: drop the thousands separators, then Decimal(cleaned):
\* an optional sign, digits with at most one decimal point.
parse_decimal(value) ==
    LET cleaned == remove_char(value, ",")
        s == strip(cleaned)
        body == Unsigned(s)
        dots == {i \in 1..Len(body) : body[i] = "."}
        digits == remove_char(body, ".")
        frac == IF dots = {} THEN 0 ELSE Len(body) - (CHOOSE i \in dots : TRUE)
    IN IF Cardinality(dots) <= 1 /\ digits # <<>> /\ AllDigits(digits)
       THEN Ok(DecV(IF Head(s) = "-" THEN 1 ELSE 0, StripLeadingZeros(digits), 0 - frac))
       ELSE Err("ValueError", <<"C","a","n","n","o","t"," ","i","n","t","e","r","p","r","e","t"," ","'">> \o value \o <<"'"," ","a","s"," ","a"," ","d","e","c","i","m","a","l">>)

\* uuid.UUID(value): hyphens are dropped, 32 hex digits must remain.
parse_uuid(value) ==
    LET hex == remove_char(value, "-")
    IN IF Len(hex) # 32
       THEN Err("ValueError", <<"b","a","d","l","y"," ","f","o","r","m","e","d"," ","h","e","x","a","d","e","c","i","m","a","l"," ","U","U","I","D"," ","s","t","r","i","n","g">>)
       ELSE IF \A i \in 1..Len(hex) : hex[i] \in HexChars
            THEN Ok(UuidV(lower(hex)))
            ELSE Err("ValueError", <<"i","n","v","a","l","i","d"," ","l","i","t","e","r","a","l"," ","f","o","r"," ","i","n","t","(",")"," ","w","i","t","h"," ","b","a","s","e"," ","1","6",":"," ">> \o repr(hex))

\* Text helpers of the header normaliser and of the date parser.

IsAlnum(c) ==
    \/ IsDigit(c)
    \/ \E i \in 1..26 : UpperLetters[i] = c \/ LowerLetters[i] = c

\* re.sub(r"[^0-9a-zA-Z]+", "_", t): every maximal run of characters that
\* are not ASCII letters or digits becomes one underscore.
RECURSIVE sub_non_alnum(_)
sub_non_alnum(t) ==
    IF t = <<>> THEN <<>>
    ELSE IF IsAlnum(Head(t)) THEN <<Head(t)>> \o sub_non_alnum(Tail(t))
         ELSE IF Len(t) > 1 /\ ~IsAlnum(t[2]) THEN sub_non_alnum(Tail(t))
              ELSE <<"_">> \o sub_non_alnum(Tail(t))

\* str.strip(c) for a one-character c.
RECURSIVE strip_char(_, _)
strip_char(t, c) ==
    IF t # <<>> /\ Head(t) = c THEN strip_char(Tail(t), c)
    ELSE IF t # <<>> /\ t[Len(t)] = c THEN strip_char(SubSeq(t, 1, Len(t) - 1), c)
         ELSE t

\* str.split(sep) for a one-character sep.
RECURSIVE split(_, _)
split(t, sep) ==
    IF \A i \in 1..Len(t) : t[i] # sep THEN <<t>>
    ELSE LET i == CHOOSE j \in 1..Len(t) :
                      t[j] = sep /\ \A k \in 1..(j - 1) : t[k] # sep
         IN <<SubSeq(t, 1, i - 1)>> \o split(SubSeq(t, i + 1, Len(t)), sep)

---------------------------------------------------------------------------
\* Header normalisation (the same body in importers.py and parsers.py).

\* normalise_header without the collapsing of runs.
normalise_header_each_char(header) ==
    LET t == IF header = None THEN <<>> ELSE header
    IN lower(strip_char([i \in 1..Len(t) |-> IF IsAlnum(t[i]) THEN t[i] ELSE "_"], "_"))

normalise_header(header) ==
    LET cleaned == sub_non_alnum(IF header = None THEN <<>> ELSE header)
    IN lower(strip_char(cleaned, "_"))

---------------------------------------------------------------------------
\* Boolean and date conversion.

BOOLEAN_TRUE == { <<"t","r","u","e">>, <<"1">>, <<"y","e","s">>, <<"y">>, <<"t">> }
BOOLEAN_FALSE == { <<"f","a","l","s","e">>, <<"0">>, <<"n","o">>, <<"n">>, <<"f">> }

BoolV(b) == V("bool", <<>>, IF b THEN 1 ELSE 0, 0)

\* datetime.date(year, month, day)
DateV(year, month, day) == V("date", <<>>, year, month * 100 + day)

\* parse_boolean comparing the value as typed.
parse_boolean_case_sensitive(value) ==
    IF value \in BOOLEAN_TRUE THEN Ok(BoolV(TRUE))
    ELSE IF value \in BOOLEAN_FALSE THEN Ok(BoolV(FALSE))
         ELSE Err("ValueError", <<"C","a","n","n","o","t"," ","i","n","t","e","r","p","r","e","t"," ","'">> \o value \o <<"'"," ","a","s"," ","a"," ","b","o","o","l","e","a","n">>)

parse_boolean(value) ==
    LET lowered == lower(value)
    IN IF lowered \in BOOLEAN_TRUE THEN Ok(BoolV(TRUE))
       ELSE IF lowered \in BOOLEAN_FALSE THEN Ok(BoolV(FALSE))
            ELSE Err("ValueError", <<"C","a","n","n","o","t"," ","i","n","t","e","r","p","r","e","t"," ","'">> \o value \o <<"'"," ","a","s"," ","a"," ","b","o","o","l","e","a","n">>)

\* The directives of datetime.strptime as the regular expressions of
\* _strptime.TimeRE: %d is 3[01]|[12]\d|0[1-9]|[1-9]| [1-9], %m is
\* 1[0-2]|0[1-9]|[1-9], %Y is \d\d\d\d.
MatchesDay(p) ==
    \/ Len(p) = 1 /\ IsDigit(p[1]) /\ p[1] # "0"
    \/ /\ Len(p) = 2
       /\ \/ p[1] = "3" /\ p[2] \in {"0", "1"}
          \/ p[1] \in {"1", "2"} /\ IsDigit(p[2])
          \/ p[1] \in {"0", " "} /\ IsDigit(p[2]) /\ p[2] # "0"

MatchesMonth(p) ==
    \/ Len(p) = 1 /\ IsDigit(p[1]) /\ p[1] # "0"
    \/ /\ Len(p) = 2
       /\ \/ p[1] = "1" /\ p[2] \in {"0", "1", "2"}
          \/ p[1] = "0" /\ IsDigit(p[2]) /\ p[2] # "0"

MatchesYear(p) == Len(p) = 4 /\ \A i \in 1..4 : IsDigit(p[i])

\* int() of a matched group (the day group may start with a space).
GroupValue(p) == DigitsToNat(IF Head(p) = " " THEN Tail(p) ELSE p)

IsLeap(year) == year % 4 = 0 /\ (year % 100 # 0 \/ year % 400 = 0)

DaysInMonth(year, month) ==
    IF month = 2 THEN (IF IsLeap(year) THEN 29 ELSE 28)
    ELSE IF month \in {4, 6, 9, 11} THEN 30 ELSE 31

\* The three formats parse_date tries, in its order: which group comes
\* first and the separator.
DATE_FORMATS ==
    << [first |-> "Y", sep |-> "-"],
       [first |-> "d", sep |-> "-"],
       [first |-> "d", sep |-> "/"] >>

\* datetime.strptime(value, fmt).date(): the whole value has to match the
\* format, and the numbers have to be a date of the calendar.
strptime(value, fmt) ==
    LET parts == split(value, fmt.sep)
        Y == IF fmt.first = "Y" THEN parts[1] ELSE parts[3]
        d == IF fmt.first = "Y" THEN parts[3] ELSE parts[1]
        m == parts[2]
    IN IF Len(parts) = 3 /\ MatchesYear(Y) /\ MatchesMonth(m) /\ MatchesDay(d)
          /\ GroupValue(Y) >= 1
          /\ GroupValue(d) <= DaysInMonth(GroupValue(Y), GroupValue(m))
       THEN Ok(DateV(GroupValue(Y), GroupValue(m), GroupValue(d)))
       ELSE Err("ValueError", <<"t","i","m","e"," ","d","a","t","a"," ">> \o repr(value) \o <<" ","d","o","e","s"," ","n","o","t"," ","m","a","t","c","h"," ","f","o","r","m","a","t">>)

\* parse_date that gives up after the first format.
parse_date_first_only(value) ==
    IF strptime(value, DATE_FORMATS[1]).ok
    THEN strptime(value, DATE_FORMATS[1])
    ELSE Err("ValueError", <<"C","a","n","n","o","t"," ","p","a","r","s","e"," ","'">> \o value \o <<"'"," ","a","s"," ","a"," ","d","a","t","e"," ","(","e","x","p","e","c","t","e","d"," ","Y","Y","Y","Y","-","M","M","-","D","D",")">>)

parse_date(value) ==
    LET matching == {i \in 1..Len(DATE_FORMATS) : strptime(value, DATE_FORMATS[i]).ok}
    IN IF matching # {}
       THEN strptime(value, DATE_FORMATS[CHOOSE i \in matching : \A j \in matching : i <= j])
       ELSE Err("ValueError", <<"C","a","n","n","o","t"," ","p","a","r","s","e"," ","'">> \o value \o <<"'"," ","a","s"," ","a"," ","d","a","t","e"," ","(","e","x","p","e","c","t","e","d"," ","Y","Y","Y","Y","-","M","M","-","D","D",")">>)

\* convert_value: dispatch on the declared type of the field.
convert_value(field, value) ==
    CASE field.kind = "BooleanField" -> parse_boolean(value)
      [] field.kind = "UUIDField" -> parse_uuid(value)
      [] field.kind = "DecimalField" -> parse_decimal(value)
      [] field.kind = "PositiveIntegerField" -> parse_int(value)
      [] field.kind = "DateField" -> parse_date(value)
      [] OTHER -> Ok(StrV(value))

---------------------------------------------------------------------------
\* Row preparation.

\* What prepare_row does: return a payload (None or a dict) or raise.
Return(is_none, payload) ==
    [kind |-> "return", is_none |-> is_none, payload |-> payload,
     exc |-> "", message |-> <<>>]
Raise(exc, message) ==
    [kind |-> "raise", is_none |-> FALSE, payload |-> <<>>,
     exc |-> exc, message |-> message]

\* row.get(column)
RowGet(row, column) == IF column \in DOMAIN row THEN row[column] ELSE None

\* Model.objects.filter(pk=value).exists()
Exists(st, m, value) == \E r \in st[m] : r[PkField(m).name] = value

\* A lookup of the related record that never fails.
get_related_unchecked(st, m, value) == TRUE

\* field.remote_field.model.objects.get(pk=value): FALSE when it raises
\* ObjectDoesNotExist.
get_related(st, m, value) == Exists(st, m, value)

\* The loop over target.field_map.items(), from item k on.
RECURSIVE clean_columns(_, _, _, _, _)
clean_columns(t, row, st, k, cleaned) ==
    IF k > Len(t.field_map) THEN Return(FALSE, cleaned)
    ELSE
      LET column == t.field_map[k][1]
          field_name == t.field_map[k][2]
      IN IF column \notin DOMAIN row THEN clean_columns(t, row, st, k + 1, cleaned)
         ELSE
           LET raw_value == row[column]
           IN IF is_empty(raw_value) THEN clean_columns(t, row, st, k + 1, cleaned)
              ELSE
                LET field == get_field(t.model, field_name)
                IN IF field.kind = "ForeignKey"
                   THEN LET related_field == PkField(field.related)
                            related == convert_value(related_field, raw_value)
                        IN IF ~related.ok
                           THEN Raise("ValueError", related.message)
                           ELSE IF ~get_related(st, field.related, related.value)
                                THEN Raise("ValueError",
                                           <<"R","e","l","a","t","e","d"," ">> \o ClassName(field.related)
                                           \o <<" ","w","i","t","h"," ">> \o attname(related_field)
                                           \o <<"=">> \o raw_value \o <<" ","n","o","t"," ","f","o","u","n","d">>)
                                ELSE clean_columns(t, row, st, k + 1,
                                       (field.name :> related.value) @@ cleaned)
                   ELSE LET converted == convert_value(field, raw_value)
                        IN IF converted.ok
                           THEN clean_columns(t, row, st, k + 1,
                                  (field.name :> converted.value) @@ cleaned)
                           ELSE IF converted.exc = "ValueError"
                                THEN Raise("ValueError",
                                           <<"C","o","l","u","m","n"," ","'">> \o column \o <<"'",":"," ">>
                                           \o converted.message)
                                ELSE Raise(converted.exc, converted.message)

\* prepare_row with the required-column check ahead of the blank-row check.
prepare_row_required_first(t, row, st) ==
    LET missing == {required \in t.required : is_empty(RowGet(row, required))}
    IN IF missing # {}
       THEN { Raise("ValueError",
                    <<"M","i","s","s","i","n","g"," ","v","a","l","u","e"," ","f","o","r"," ","r","e","q","u","i","r","e","d"," ","c","o","l","u","m","n"," ","'">> \o required \o <<"'">>)
              : required \in missing }
       ELSE IF \A c \in DOMAIN row : is_empty(row[c])
            THEN { Return(TRUE, <<>>) }
            ELSE { clean_columns(t, row, st, 1, <<>>) }

\* prepare_row without the required-column check.
prepare_row_no_required(t, row, st) ==
    IF \A c \in DOMAIN row : is_empty(row[c])
    THEN { Return(TRUE, <<>>) }
    ELSE { clean_columns(t, row, st, 1, <<>>) }

\* prepare_row: the set of its possible results.  target.required is a set
\* of str, iterated in hash order, so when several required columns are
\* missing any one of them can be the one reported.
prepare_row(t, row, st) ==
    IF \A c \in DOMAIN row : is_empty(row[c])
    THEN { Return(TRUE, <<>>) }
    ELSE LET missing == {required \in t.required : is_empty(RowGet(row, required))}
         IN IF missing # {}
            THEN { Raise("ValueError",
                         <<"M","i","s","s","i","n","g"," ","v","a","l","u","e"," ","f","o","r"," ","r","e","q","u","i","r","e","d"," ","c","o","l","u","m","n"," ","'">> \o required \o <<"'">>)
                   : required \in missing }
            ELSE { clean_columns(t, row, st, 1, <<>>) }

---------------------------------------------------------------------------
\* Persistence: Model(**payload), full_clean() and save().

HexDigits == <<"0","1","2","3","4","5","6","7","8","9","a","b","c","d","e","f">>

\* The n-th value drawn from uuid.uuid4(): the draws are random and
\* distinct; they are told apart by their last two hex digits.
uuid4(n) ==
    UuidV([i \in 1..30 |-> "f"] \o <<HexDigits[(n \div 16) + 1], HexDigits[(n % 16) + 1]>>)

\* Does Model(**payload) take its primary key from the default?
UsesDefaultPk(m, payload) == PkField(m).name \notin DOMAIN payload

\* Field.get_default()
DefaultValue(f, n) ==
    CASE f.primary_key -> uuid4(n)
      [] f.kind = "CharField" -> StrV(<<>>)
      [] f.kind = "PositiveIntegerField" -> IntV(0)
      [] OTHER -> NoneV

\* Model(**payload): every field takes the payload's value or its default.
NewInstance(m, payload, n) ==
    LET fs == ModelFields(m)
    IN [name \in {fs[i].name : i \in 1..Len(fs)} |->
          IF name \in DOMAIN payload THEN payload[name]
          ELSE DefaultValue(get_field(m, name), n)]

\* Field.empty_values
IsEmptyValue(v) == v.tag = "None" \/ (v.tag = "str" /\ v.text = <<>>)

\* DecimalValidator(max_digits, decimal_places): the message it raises,
\* <<>> when the value passes.
DecimalValidator(v) ==
    LET len == Len(v.text)
        exponent == v.exp
        abs_exp == IF exponent < 0 THEN 0 - exponent ELSE exponent
        digits == IF exponent >= 0
                  THEN (IF v.text # <<"0">> THEN len + exponent ELSE len)
                  ELSE (IF abs_exp > len THEN abs_exp ELSE len)
        decimals == IF exponent >= 0 THEN 0 ELSE abs_exp
        whole_digits == digits - decimals
    IN IF digits > MaxDigits
       THEN << <<"E","n","s","u","r","e"," ","t","h","a","t"," ","t","h","e","r","e"," ","a","r","e"," ","n","o"," ","m","o","r","e"," ","t","h","a","n"," ","1","0"," ","d","i","g","i","t","s"," ","i","n"," ","t","o","t","a","l",".">> >>
       ELSE IF decimals > DecimalPlaces
            THEN << <<"E","n","s","u","r","e"," ","t","h","a","t"," ","t","h","e","r","e"," ","a","r","e"," ","n","o"," ","m","o","r","e"," ","t","h","a","n"," ","2"," ","d","e","c","i","m","a","l"," ","p","l","a","c","e","s",".">> >>
            ELSE IF whole_digits > MaxDigits - DecimalPlaces
                 THEN << <<"E","n","s","u","r","e"," ","t","h","a","t"," ","t","h","e","r","e"," ","a","r","e"," ","n","o"," ","m","o","r","e"," ","t","h","a","n"," ","8"," ","d","i","g","i","t","s"," ","b","e","f","o","r","e"," ","t","h","e"," ","d","e","c","i","m","a","l"," ","p","o","i","n","t",".">> >>
                 ELSE <<>>

\* Field.clean(value): the messages of the ValidationError it raises, <<>>
\* when the value is clean.  validated tells whether the backend gives
\* PositiveIntegerField a MinValueValidator(0).
FieldClean(f, v, validated) ==
    IF v.tag = "None" /\ ~f.null
    THEN << <<"T","h","i","s"," ","f","i","e","l","d"," ","c","a","n","n","o","t"," ","b","e"," ","n","u","l","l",".">> >>
    ELSE IF ~f.blank /\ IsEmptyValue(v)
         THEN << <<"T","h","i","s"," ","f","i","e","l","d"," ","c","a","n","n","o","t"," ","b","e"," ","b","l","a","n","k",".">> >>
         ELSE CASE f.kind = "PositiveIntegerField" /\ validated /\ v.num < 0 ->
                     << <<"E","n","s","u","r","e"," ","t","h","i","s"," ","v","a","l","u","e"," ","i","s"," ","g","r","e","a","t","e","r"," ","t","h","a","n"," ","o","r"," ","e","q","u","a","l"," ","t","o"," ","0",".">> >>
                [] f.kind = "DecimalField" /\ v.tag = "Decimal" -> DecimalValidator(v)
                [] OTHER -> <<>>

\* Model.clean_fields(): the error dict as ordered <<field, messages>> items.
RECURSIVE clean_fields(_, _, _, _)
clean_fields(m, inst, validated, k) ==
    IF k > Len(ModelFields(m)) THEN <<>>
    ELSE LET f == ModelFields(m)[k]
             raw_value == inst[f.name]
             rest == clean_fields(m, inst, validated, k + 1)
         IN IF f.blank /\ IsEmptyValue(raw_value) THEN rest
            ELSE LET messages == FieldClean(f, raw_value, validated)
                 IN IF messages = <<>> THEN rest
                    ELSE << <<f.name, messages>> >> \o rest

\* validate_unique that skips the primary key.
validate_unique_off(m, inst, st) == <<>>

\* Model.validate_unique(): a new instance whose primary key is taken.
validate_unique(m, inst, st) ==
    LET pk == PkField(m)
    IN IF Exists(st, m, inst[pk.name])
       THEN << <<pk.name,
                 << capfirst(ModelVerboseName(m)) \o <<" ","w","i","t","h"," ","t","h","i","s"," ">>
                    \o capfirst(verbose_name(pk)) \o <<" ","a","l","r","e","a","d","y"," ","e","x","i","s","t","s",".">> >> >> >>
       ELSE <<>>

\* full_clean without validate_unique.
full_clean_fields_only(m, inst, st, validated) ==
    clean_fields(m, inst, validated, 1)

\* Model.full_clean(): the items of the ValidationError's message_dict.
full_clean(m, inst, st, validated) ==
    clean_fields(m, inst, validated, 1) \o validate_unique(m, inst, st)

\* The CHECK ("column" >= 0) the schema puts on a PositiveIntegerField.
CheckViolations(m, inst) ==
    LET fs == ModelFields(m)
    IN {i \in 1..Len(fs) :
           fs[i].kind = "PositiveIntegerField" /\ inst[fs[i].name].num < 0}

\* format_validation_error
RECURSIVE format_items(_)
format_items(items) ==
    IF items = <<>> THEN <<>>
    ELSE << items[1][1] \o <<":"," ">> \o join(<<","," ">>, items[1][2]) >>
         \o format_items(Tail(items))

format_validation_error(error) ==
    IF error.exc = "ValidationError"
    THEN join(<<";"," ">>, format_items(error.message_dict))
    ELSE error.message

\* with transaction.atomic(): instance = Model(**payload);
\* instance.full_clean(); instance.save()
Saved(inst) == [ok |-> TRUE, instance |-> inst, exc |-> "", message_dict |-> <<>>, message |-> <<>>]
SaveRaises(inst, exc, items, message) ==
    [ok |-> FALSE, instance |-> inst, exc |-> exc, message_dict |-> items, message |-> message]

save(m, payload, st, n, validated) ==
    LET instance == NewInstance(m, payload, n)
        items == full_clean(m, instance, st, validated)
        violated == CheckViolations(m, instance)
    IN IF items # <<>>
       THEN SaveRaises(instance, "ValidationError", items, <<>>)
       ELSE IF violated # {}
            THEN SaveRaises(instance, "IntegrityError", <<>>,
                            <<"C","H","E","C","K"," ","c","o","n","s","t","r","a","i","n","t"," ","f","a","i","l","e","d",":"," ">>
                            \o ModelFields(m)[CHOOSE i \in violated : TRUE].name)
            ELSE Saved(instance)

---------------------------------------------------------------------------
\* Inputs: the rows handed to perform_import.

\* The key of a Farmer that exists before the import, and one that never does.
KnownKey == <<"a","a","a","a","a","a","a","a","-","a","a","a","a","-","4","a","a","a","-","8","a","a","a","-","a","a","a","a","a","a","a","a","a","a","a","a">>
UnknownKey == <<"b","b","b","b","b","b","b","b","-","b","b","b","b","-","4","b","b","b","-","8","b","b","b","-","b","b","b","b","b","b","b","b","b","b","b","b">>
BadKey == <<"n","o","t","-","a","-","u","u","i","d">>

FarmerRows ==
    { (<<"n","a","m","e">> :> <<"A","s","h","a">>) @@ (<<"d","i","s","t","r","i","c","t">> :> <<"S","o","l","a","p","u","r">>),
      (<<"f","a","r","m","e","r","_","i","d">> :> KnownKey) @@ (<<"n","a","m","e">> :> <<"R","a","h","u","l">>),
      (<<"n","a","m","e">> :> <<>>) @@ (<<"d","i","s","t","r","i","c","t">> :> <<"S","o","l","a","p","u","r">>),
      (<<"n","a","m","e">> :> <<"N","A">>) @@ (<<"d","i","s","t","r","i","c","t">> :> <<>>),
      (<<"n","a","m","e">> :> <<"A","s","h","a">>) @@ (<<"f","a","r","m","i","n","g","_","e","x","p","e","r","i","e","n","c","e","_","y","e","a","r","s">> :> <<"-","3">>),
      (<<"n","a","m","e">> :> <<"A","s","h","a">>) @@ (<<"f","a","r","m","i","n","g","_","e","x","p","e","r","i","e","n","c","e","_","y","e","a","r","s">> :> <<"x">>),
      (<<"d","i","s","t","r","i","c","t">> :> <<"S","o","l","a","p","u","r">>) @@ (<<"r","e","m","a","r","k","s">> :> <<"n","e","w">>),
      (<<"f","a","r","m","e","r","_","i","d">> :> BadKey) @@ (<<"n","a","m","e">> :> <<"A","s","h","a">>)
        @@ (<<"f","a","r","m","i","n","g","_","e","x","p","e","r","i","e","n","c","e","_","y","e","a","r","s">> :> <<"7">>) }

LandHoldingRows ==
    { (<<"f","a","r","m","e","r","_","i","d">> :> KnownKey) @@ (<<"c","a","t","e","g","o","r","y">> :> <<"I","r","r","i","g","a","t","e","d">>)
        @@ (<<"t","o","t","a","l","_","a","r","e","a","_","h","a">> :> <<"2",".","5">>),
      (<<"f","a","r","m","e","r","_","i","d">> :> UnknownKey) @@ (<<"c","a","t","e","g","o","r","y">> :> <<"S","e","a","s","o","n","a","l">>),
      (<<"f","a","r","m","e","r","_","i","d">> :> BadKey) @@ (<<"c","a","t","e","g","o","r","y">> :> <<"S","e","a","s","o","n","a","l">>),
      (<<"f","a","r","m","e","r","_","i","d">> :> <<>>) @@ (<<"c","a","t","e","g","o","r","y">> :> <<"S","e","a","s","o","n","a","l">>),
      (<<"f","a","r","m","e","r","_","i","d">> :> <<"n","/","a">>) @@ (<<"c","a","t","e","g","o","r","y">> :> <<" ">>),
      (<<"f","a","r","m","e","r","_","i","d">> :> KnownKey) @@ (<<"t","o","t","a","l","_","a","r","e","a","_","h","a">> :> <<"1",",","2","3","4",".","5","6","7">>),
      (<<"f","a","r","m","e","r","_","i","d">> :> KnownKey) @@ (<<"t","o","t","a","l","_","a","r","e","a","_","h","a">> :> <<"a","b","c">>),
      (<<"l","a","n","d","_","i","d">> :> BadKey) @@ (<<"f","a","r","m","e","r","_","i","d">> :> UnknownKey)
        @@ (<<"c","a","t","e","g","o","r","y">> :> <<"S","e","a","s","o","n","a","l">>) }

AssetRows ==
    { (<<"f","a","r","m","e","r","_","i","d">> :> KnownKey) @@ (<<"i","t","e","m","_","n","a","m","e">> :> <<"P","l","o","u","g","h">>)
        @@ (<<"q","u","a","n","t","i","t","y">> :> <<"2">>),
      (<<"f","a","r","m","e","r","_","i","d">> :> UnknownKey) @@ (<<"i","t","e","m","_","n","a","m","e">> :> <<>>),
      (<<"q","u","a","n","t","i","t","y">> :> <<"2">>),
      (<<"f","a","r","m","e","r","_","i","d">> :> KnownKey) @@ (<<"i","t","e","m","_","n","a","m","e">> :> <<"P","l","o","u","g","h">>)
        @@ (<<"q","u","a","n","t","i","t","y">> :> <<"-","1">>),
      (<<"f","a","r","m","e","r","_","i","d">> :> <<>>) @@ (<<"i","t","e","m","_","n","a","m","e">> :> <<>>) @@ (<<"q","u","a","n","t","i","t","y">> :> <<"n","u","l","l">>),
      (<<"f","a","r","m","e","r","_","i","d">> :> UnknownKey) @@ (<<"i","t","e","m","_","n","a","m","e">> :> <<"P","l","o","u","g","h">>) }

RowPool(key) ==
    CASE key = "farmers" -> FarmerRows
      [] key = "land_holdings" -> LandHoldingRows
      [] key = "assets" -> AssetRows

\* The rows a long batch repeats: one that creates, one that fails in
\* preparation, one that fails at save time.
FillRows(key) ==
    CASE key = "farmers" ->
           { (<<"f","a","r","m","e","r","_","i","d">> :> KnownKey) @@ (<<"n","a","m","e">> :> <<"R","a","h","u","l">>),
             (<<"n","a","m","e">> :> <<>>) @@ (<<"d","i","s","t","r","i","c","t">> :> <<"S","o","l","a","p","u","r">>),
             (<<"n","a","m","e">> :> <<"A","s","h","a">>) @@ (<<"f","a","r","m","i","n","g","_","e","x","p","e","r","i","e","n","c","e","_","y","e","a","r","s">> :> <<"-","3">>) }
      [] key = "land_holdings" ->
           { (<<"f","a","r","m","e","r","_","i","d">> :> UnknownKey) @@ (<<"c","a","t","e","g","o","r","y">> :> <<"S","e","a","s","o","n","a","l">>),
             (<<"f","a","r","m","e","r","_","i","d">> :> KnownKey) @@ (<<"t","o","t","a","l","_","a","r","e","a","_","h","a">> :> <<"1",",","2","3","4",".","5","6","7">>) }
      [] key = "assets" ->
           { (<<"f","a","r","m","e","r","_","i","d">> :> KnownKey) @@ (<<"i","t","e","m","_","n","a","m","e">> :> <<"P","l","o","u","g","h">>)
               @@ (<<"q","u","a","n","t","i","t","y">> :> <<"2">>),
             (<<"f","a","r","m","e","r","_","i","d">> :> UnknownKey) @@ (<<"i","t","e","m","_","n","a","m","e">> :> <<>>) }

\* ParsedRow: the parser numbers the header 1 and the data rows from 2.
ParsedRow(line_number, values) == [line_number |-> line_number, values |-> values]

Number(rows) == [i \in 1..Len(rows) |-> ParsedRow(i + 1, rows[i])]

SeqsUpTo(S, n) == UNION { [1..k -> S] : k \in 0..n }

\* Short batches of any pool rows, and long batches: at most one fill row
\* followed by LongRows copies of a fill row.
Batches(key) ==
    { Number(rows) : rows \in SeqsUpTo(RowPool(key), MaxRows) }
    \cup { Number(prefix \o [i \in 1..LongRows |-> fill]) :
             prefix \in SeqsUpTo(FillRows(key), 1), fill \in FillRows(key) }

\* The store before the import: empty, or holding one Farmer.
EmptyStore == [m \in ModelNames |-> {}]

Rahul ==
    (<<"f","a","r","m","e","r","_","i","d">> :> UuidV(remove_char(KnownKey, "-"))) @@ (<<"n","a","m","e">> :> StrV(<<"R","a","h","u","l">>))
    @@ (<<"d","i","s","t","r","i","c","t">> :> StrV(<<>>)) @@ (<<"f","a","r","m","i","n","g","_","e","x","p","e","r","i","e","n","c","e","_","y","e","a","r","s">> :> IntV(0))

InitialStores == { EmptyStore, [EmptyStore EXCEPT !["Farmer"] = {Rahul}] }

---------------------------------------------------------------------------
\* The two file parsers: parse_uploaded_file (pmksy/importers.py) and
\* parse_csv (data_wizard/parsers.py).
\*
\* The bytes of an upload are a sequence of one-character strings, of the
\* byte order mark "BOM" and of "xFF", a byte that is not UTF-8.  The files
\* of the model are the ones in which csv.Sniffer finds the comma: every
\* line that is not empty has as many cells as the header, and no cell is
\* quoted.

BOM == "BOM"
InvalidByte == "xFF"

\* bytes.decode("utf-8-sig"): FALSE stands for UnicodeDecodeError.
Decodable(raw_bytes) == \A i \in 1..Len(raw_bytes) : raw_bytes[i] # InvalidByte

decode(raw_bytes) ==
    IF raw_bytes # <<>> /\ Head(raw_bytes) = BOM THEN Tail(raw_bytes) ELSE raw_bytes

\* The lines io.StringIO gives to the csv reader, without their line ends.
lines_of(decoded) ==
    LET pieces == split(decoded, "\n")
        whole == IF pieces[Len(pieces)] = <<>>
                 THEN SubSeq(pieces, 1, Len(pieces) - 1) ELSE pieces
    IN [i \in 1..Len(whole) |->
          IF whole[i] # <<>> /\ whole[i][Len(whole[i])] = "\r"
          THEN SubSeq(whole[i], 1, Len(whole[i]) - 1) ELSE whole[i]]

\* csv.reader: the cells of a line; an empty line is the empty row [].
cells_of(line) == IF line = <<>> THEN <<>> ELSE split(line, ",")

\* csv.reader over the whole stream, each row with the number of its line.
reader(decoded) ==
    LET ls == lines_of(decoded)
    IN [i \in 1..Len(ls) |-> [line_num |-> i, cells |-> cells_of(ls[i])]]

\* DictReader.fieldnames: the first row of the reader.  None (there is no
\* row) and [] (the first line is empty) are the same to "not fieldnames",
\* and both are <<>> here.
fieldnames(records) == IF records = <<>> THEN <<>> ELSE records[1].cells

\* DictReader.__next__: the rows after the header, empty rows left out.
RECURSIVE data_rows(_)
data_rows(records) ==
    IF records = <<>> THEN <<>>
    ELSE IF Head(records).cells = <<>> THEN data_rows(Tail(records))
         ELSE <<Head(records)>> \o data_rows(Tail(records))

\* dict(zip(fieldnames, row)) with restval None, then .get(original, ""):
\* of several cells under one header the last one is kept.
raw_cell(names, cells, original) ==
    LET last == CHOOSE i \in 1..Len(names) :
                    names[i] = original /\ \A j \in (i + 1)..Len(names) : names[j] # original
    IN IF last <= Len(cells) THEN cells[last] ELSE None

\* The keys of a dict built from the sequence, in insertion order.
RECURSIVE keys_in_order(_)
keys_in_order(s) ==
    IF s = <<>> THEN <<>>
    ELSE LET rest == keys_in_order(SubSeq(s, 1, Len(s) - 1))
             k == s[Len(s)]
         IN IF \E i \in 1..Len(rest) : rest[i] = k THEN rest ELSE Append(rest, k)

ParsedDataset(columns, original_headers, rows) ==
    [columns |-> columns, original_headers |-> original_headers, rows |-> rows]

\* ParsedDataset.row_count
row_count(dataset) == Len(dataset.rows)

\* header_map as the list of its keys, and normalised_to_original.
header_keys(names) == keys_in_order(names)

normalised_to_original(names) ==
    LET originals == header_keys(names)
        normals == {normalise_header(originals[i]) : i \in 1..Len(originals)}
    IN [n \in normals |->
          originals[CHOOSE i \in 1..Len(originals) :
                       /\ normalise_header(originals[i]) = n
                       /\ \A j \in (i + 1)..Len(originals) :
                            normalise_header(originals[j]) # n]]

columns_of(names) ==
    LET originals == header_keys(names)
    IN keys_in_order([i \in 1..Len(originals) |-> normalise_header(originals[i])])

\* The value of one cell as the loop body reads it: None becomes "".
cell_value(names, cells, original) ==
    LET value == raw_cell(names, cells, original)
    IN IF value = None THEN <<>> ELSE value

\* normalised_row: every value stripped, the last header of a normalised
\* name giving the value.
normalised_row(names, cells) ==
    LET n2o == normalised_to_original(names)
    IN [n \in DOMAIN n2o |-> strip(cell_value(names, cells, n2o[n]))]

\* The parser's test with the importer's notion of an empty value.
meaningful_by_vocabulary(value, strip_first) == ~is_empty(value)

\* importers.py lines 321-323: the value is stripped, then tested;
\* parsers.py line 58: the value is tested before it is stripped.
meaningful(value, strip_first) ==
    IF strip_first THEN strip(value) # <<>> ELSE value # <<>>

\* The loop over the rows, numbered by enumerate(reader, start=2).
RECURSIVE collect_rows(_, _, _, _)
collect_rows(names, rows, k, strip_first) ==
    IF k > Len(rows) THEN <<>>
    ELSE LET values == {cell_value(names, rows[k].cells, names[i]) : i \in 1..Len(names)}
             rest == collect_rows(names, rows, k + 1, strip_first)
         IN IF \E value \in values : meaningful(value, strip_first)
            THEN <<ParsedRow(k + 1, normalised_row(names, rows[k].cells))>> \o rest
            ELSE rest

\* The body without the test for an empty list of rows.
parse_with_no_rows_check(raw_bytes, strip_first) ==
    IF raw_bytes = <<>>
    THEN Raises(<<"T","h","e"," ","u","p","l","o","a","d","e","d"," ","f","i","l","e"," ","i","s"," ","e","m","p","t","y",".">>)
    ELSE IF ~Decodable(raw_bytes)
    THEN Raises(<<"U","n","a","b","l","e"," ","t","o"," ","d","e","c","o","d","e"," ","f","i","l","e"," ","a","s"," ","U","T","F","-","8",".">>)
    ELSE LET records == reader(decode(raw_bytes))
             names == fieldnames(records)
         IN IF names = <<>>
            THEN Raises(<<"T","h","e"," ","f","i","l","e"," ","d","o","e","s"," ","n","o","t"," ","c","o","n","t","a","i","n"," ","a"," ","h","e","a","d","e","r"," ","r","o","w",".">>)
            ELSE Returns(ParsedDataset(columns_of(names), normalised_to_original(names),
                           collect_rows(names, data_rows(Tail(records)), 1, strip_first)))

\* The body the two parsers share.
parse_with(raw_bytes, strip_first) ==
    IF raw_bytes = <<>>
    THEN Raises(<<"T","h","e"," ","u","p","l","o","a","d","e","d"," ","f","i","l","e"," ","i","s"," ","e","m","p","t","y",".">>)
    ELSE IF ~Decodable(raw_bytes)
    THEN Raises(<<"U","n","a","b","l","e"," ","t","o"," ","d","e","c","o","d","e"," ","f","i","l","e"," ","a","s"," ","U","T","F","-","8",".">>)
    ELSE LET records == reader(decode(raw_bytes))
             names == fieldnames(records)
         IN IF names = <<>>
            THEN Raises(<<"T","h","e"," ","f","i","l","e"," ","d","o","e","s"," ","n","o","t"," ","c","o","n","t","a","i","n"," ","a"," ","h","e","a","d","e","r"," ","r","o","w",".">>)
            ELSE LET rows == collect_rows(names, data_rows(Tail(records)), 1, strip_first)
                 IN IF rows = <<>>
                    THEN Raises(<<"N","o"," ","d","a","t","a"," ","r","o","w","s"," ","w","e","r","e"," ","d","e","t","e","c","t","e","d"," ","i","n"," ","t","h","e"," ","u","p","l","o","a","d","e","d"," ","f","i","l","e",".">>)
                    ELSE Returns(ParsedDataset(columns_of(names),
                                               normalised_to_original(names), rows))

parse_uploaded_file(uploaded_file) == parse_with(uploaded_file, TRUE)

parse_csv(uploaded_file) == parse_with(uploaded_file, FALSE)

---------------------------------------------------------------------------
\* perform_import / ModelImporter.import_rows

RowError(row_number, message, values) ==
    [row_number |-> row_number, message |-> message, values |-> values]

\* A summary whose total is taken from the retained errors.
ImportSummary_retained(total_rows, c, s, e) ==
    [total_rows |-> c + s + Len(e), created |-> c, skipped |-> s, errors |-> e]

ImportSummary(total_rows, c, s, e) ==
    [total_rows |-> total_rows, created |-> c, skipped |-> s, errors |-> e]

\* ImportSummary.error_count
error_count(s) == Len(s.errors)

\* What the loop body did with the row it handled last.
Outcome(row_number, kind, exc, message) ==
    [row_number |-> row_number, kind |-> kind, exc |-> exc, message |-> message]

NoOutcome == Outcome(0, "none", "", <<>>)

\* The cap tested with <= in place of <.
Record_off_by_one(errs, row_number, message, values) ==
    IF Len(errs) <= MAX_ERRORS_REPORTED
    THEN Append(errs, RowError(row_number, message, values))
    ELSE errs

\* errors.append(...) under the cap
Record(errs, row_number, message, values) ==
    IF Len(errs) < MAX_ERRORS_REPORTED
    THEN Append(errs, RowError(row_number, message, values))
    ELSE errs

\* request.session[session_key]: nothing stored, or the payload of an
\* upload.
Storage(key, columns, column_labels, rows) ==
    [stored |-> TRUE, target |-> key, columns |-> columns,
     column_labels |-> column_labels, rows |-> rows]

NoStorage ==
    [stored |-> FALSE, target |-> "", columns |-> <<>>, column_labels |-> <<>>,
     rows |-> <<>>]

\* What a handler answers: a rendered template or a redirect, the message
\* it adds, and the entries of the context the templates branch on.
Response(request, kind, to, message, missing, complete, imported) ==
    [request |-> request, kind |-> kind, to |-> to, message |-> message,
     missing_columns |-> missing, import_complete |-> complete, summary |-> imported]

NoSummary == ImportSummary(0, 0, 0, <<>>)

\* request.session["pmksy_survey_wizard"]: the key of the farmer the survey
\* wizard is bound to, as str(farmer.pk); no entry is the empty text.
NoFarmer == <<>>

\* The models that only the survey wizard writes, with no record.
SurveyModels == {"CropHistory", "Enterprise", "MigrationRecord", "FinancialRecord"}

NoRelated == [m \in SurveyModels |-> {}]

NoResponse == Response("none", "none", "", <<>>, {}, FALSE, NoSummary)

\* Before perform_import is called.
ImportIdle ==
    /\ pc = "idle"
    /\ target = "farmers"
    /\ parsed_rows = <<>>
    /\ index = 0
    /\ created = 0
    /\ skipped = 0
    /\ errors = <<>>
    /\ summary = ImportSummary(0, 0, 0, <<>>)
    /\ store_before = store
    /\ uuid4_calls = 0
    /\ outcome = NoOutcome
    /\ errored = 0

Init ==
    /\ store \in InitialStores
    /\ range_validated \in BOOLEAN
    /\ ImportIdle
    /\ call = NoCall
    /\ returned = NoReturn
    /\ session = NoStorage
    /\ response = NoResponse
    /\ wizard = NoFarmer
    /\ survey_records = NoRelated

\* perform_import(target, parsed_rows) is called: lines 430-432.
Start ==
    /\ pc = "idle"
    /\ \E key \in TargetKeys : \E rows \in Batches(key) :
         /\ target' = key
         /\ parsed_rows' = rows
    /\ index' = 0
    /\ created' = 0
    /\ skipped' = 0
    /\ errors' = <<>>
    /\ store_before' = store
    /\ pc' = "loop"
    /\ UNCHANGED <<call_vars, view_vars>>
    /\ UNCHANGED <<summary, store, uuid4_calls, range_validated, outcome, errored>>

InLoop == pc = "loop" /\ index < Len(parsed_rows)

parsed_row == parsed_rows[index + 1]

Prepared == prepare_row(ImportTarget(target), parsed_row.values, store)

\* Loop body, lines 437-442: prepare_row raises.  Only ValueError is
\* caught; anything else leaves perform_import.
RowPrepareFails ==
    /\ InLoop
    /\ \E p \in Prepared :
         /\ p.kind = "raise"
         /\ outcome' = Outcome(parsed_row.line_number, "error", p.exc, p.message)
         /\ IF p.exc = "ValueError"
            THEN /\ errors' = Record(errors, parsed_row.line_number, p.message,
                                     parsed_row.values)
                 /\ index' = index + 1
                 /\ errored' = errored + 1
                 /\ pc' = pc
            ELSE /\ pc' = "raised"
                 /\ UNCHANGED <<errors, index, errored>>
    /\ UNCHANGED <<call_vars, view_vars>>
    /\ UNCHANGED <<target, parsed_rows, created, skipped, summary, store,
                   store_before, uuid4_calls, range_validated>>

\* Loop body, lines 444-446: the payload is None or empty.
RowSkipped ==
    /\ InLoop
    /\ \E p \in Prepared :
         /\ p.kind = "return"
         /\ p.is_none \/ p.payload = <<>>
    /\ skipped' = skipped + 1
    /\ index' = index + 1
    /\ outcome' = Outcome(parsed_row.line_number, "skip", "", <<>>)
    /\ UNCHANGED <<call_vars, view_vars>>
    /\ UNCHANGED <<pc, target, parsed_rows, created, errors, summary, store,
                   store_before, uuid4_calls, range_validated, errored>>

Payloads == {p \in Prepared : p.kind = "return" /\ ~p.is_none /\ p.payload # <<>>}

AfterSave(p) ==
    save(ImportTarget(target).model, p.payload, store, uuid4_calls, range_validated)

DrawsKey(p) ==
    IF UsesDefaultPk(ImportTarget(target).model, p.payload)
    THEN uuid4_calls + 1 ELSE uuid4_calls

\* The save without transaction.atomic(): the failed row's record stays.
RowSaveFails_no_rollback ==
    /\ InLoop
    /\ \E p \in Payloads :
         LET result == AfterSave(p)
             message == format_validation_error(result)
         IN /\ ~result.ok
            /\ uuid4_calls' = DrawsKey(p)
            /\ outcome' = Outcome(parsed_row.line_number, "error", result.exc, message)
            /\ store' = [store EXCEPT ![ImportTarget(target).model] =
                                         @ \cup {result.instance}]
            /\ errors' = Record(errors, parsed_row.line_number, message,
                                parsed_row.values)
            /\ index' = index + 1
            /\ errored' = errored + 1
    /\ UNCHANGED <<call_vars, view_vars>>
    /\ UNCHANGED <<pc, target, parsed_rows, created, skipped, summary,
                   store_before, range_validated>>

\* Loop body, lines 448-456: the atomic block raises, and with it whatever
\* it wrote is rolled back.  ValidationError and IntegrityError are caught.
RowSaveFails ==
    /\ InLoop
    /\ \E p \in Payloads :
         LET result == AfterSave(p)
             message == format_validation_error(result)
         IN /\ ~result.ok
            /\ uuid4_calls' = DrawsKey(p)
            /\ outcome' = Outcome(parsed_row.line_number, "error", result.exc, message)
            /\ IF result.exc \in {"ValidationError", "IntegrityError"}
               THEN /\ errors' = Record(errors, parsed_row.line_number, message,
                                        parsed_row.values)
                    /\ index' = index + 1
                    /\ errored' = errored + 1
                    /\ pc' = pc
               ELSE /\ pc' = "raised"
                    /\ UNCHANGED <<errors, index, errored>>
    /\ UNCHANGED <<call_vars, view_vars>>
    /\ UNCHANGED <<target, parsed_rows, created, skipped, summary, store,
                   store_before, range_validated>>

\* The loop body counting a row it did not save.
RowCreated_without_save ==
    /\ InLoop
    /\ \E p \in Payloads :
         LET result == AfterSave(p)
         IN /\ result.ok
            /\ uuid4_calls' = DrawsKey(p)
    /\ created' = created + 1
    /\ index' = index + 1
    /\ outcome' = Outcome(parsed_row.line_number, "create", "", <<>>)
    /\ UNCHANGED <<call_vars, view_vars>>
    /\ UNCHANGED <<pc, target, parsed_rows, skipped, errors, summary, store,
                   store_before, range_validated, errored>>

\* Loop body, lines 448-452 and 457-458: the record is inserted.
RowCreated ==
    /\ InLoop
    /\ \E p \in Payloads :
         LET result == AfterSave(p)
         IN /\ result.ok
            /\ uuid4_calls' = DrawsKey(p)
            /\ store' = [store EXCEPT ![ImportTarget(target).model] =
                                         @ \cup {result.instance}]
    /\ created' = created + 1
    /\ index' = index + 1
    /\ outcome' = Outcome(parsed_row.line_number, "create", "", <<>>)
    /\ UNCHANGED <<call_vars, view_vars>>
    /\ UNCHANGED <<pc, target, parsed_rows, skipped, errors, summary,
                   store_before, range_validated, errored>>

\* Lines 460-465: the loop is over, the summary is returned.
ReturnSummary ==
    /\ pc = "loop"
    /\ index = Len(parsed_rows)
    /\ summary' = ImportSummary(Len(parsed_rows), created, skipped, errors)
    /\ pc' = "done"
    /\ UNCHANGED <<call_vars, view_vars>>
    /\ UNCHANGED <<target, parsed_rows, index, created, skipped, errors, store,
                   store_before, uuid4_calls, range_validated, outcome, errored>>

Next ==
    \/ Start
    \/ RowPrepareFails
    \/ RowSkipped
    \/ RowSaveFails
    \/ RowCreated
    \/ ReturnSummary

Spec == Init /\ [][Next]_vars

TypeOK ==
    /\ pc \in {"idle", "loop", "done", "raised"}
    /\ target \in TargetKeys
    /\ index \in 0..Len(parsed_rows)
    /\ created \in Nat /\ skipped \in Nat /\ errored \in Nat

---------------------------------------------------------------------------
\* Imports of a single row, drawn from the row pool and from rows whose
\* cells spell the empty-value vocabulary in mixed case and with padding.

VocabularyRows(key) ==
    CASE key = "farmers" ->
           { (<<"n","a","m","e">> :> <<"A","s","h","a">>) @@ (<<"d","i","s","t","r","i","c","t">> :> <<"N","/","A">>),
             (<<"n","a","m","e">> :> <<"A","s","h","a">>) @@ (<<"d","i","s","t","r","i","c","t">> :> <<"P","u","n","e">>)
               @@ (<<"f","a","r","m","i","n","g","_","e","x","p","e","r","i","e","n","c","e","_","y","e","a","r","s">> :> <<" ","N","a","N"," ">>),
             (<<"n","a","m","e">> :> <<"N","i","l">>) @@ (<<"d","i","s","t","r","i","c","t">> :> <<"P","u","n","e">>),
             (<<"n","a","m","e">> :> <<"n","o","n","e">>) @@ (<<"d","i","s","t","r","i","c","t">> :> <<"N","U","L","L">>),
             (<<"f","a","r","m","e","r","_","i","d">> :> <<"n","u","l","l">>) @@ (<<"n","a","m","e">> :> <<"N","a","n","d","i","n","i">>)
               @@ (<<"f","a","r","m","i","n","g","_","e","x","p","e","r","i","e","n","c","e","_","y","e","a","r","s">> :> <<"1","2">>),
             (<<"n","a","m","e">> :> <<"A","s","h","a">>) @@ (<<"f","a","r","m","i","n","g","_","e","x","p","e","r","i","e","n","c","e","_","y","e","a","r","s">> :> <<"n",".","a",".">>) }
      [] key = "land_holdings" ->
           { (<<"f","a","r","m","e","r","_","i","d">> :> KnownKey) @@ (<<"c","a","t","e","g","o","r","y">> :> <<"I","r","r","i","g","a","t","e","d">>)
               @@ (<<"t","o","t","a","l","_","a","r","e","a","_","h","a">> :> <<"N","A">>),
             (<<"l","a","n","d","_","i","d">> :> <<"N","o","n","e">>) @@ (<<"f","a","r","m","e","r","_","i","d">> :> KnownKey)
               @@ (<<"t","o","t","a","l","_","a","r","e","a","_","h","a">> :> <<"0",".","7","5">>),
             (<<"f","a","r","m","e","r","_","i","d">> :> <<"N","A","N">>) @@ (<<"c","a","t","e","g","o","r","y">> :> <<"I","r","r","i","g","a","t","e","d">>),
             (<<"f","a","r","m","e","r","_","i","d">> :> KnownKey) @@ (<<"t","o","t","a","l","_","a","r","e","a","_","h","a">> :> <<"n","i","l","l">>) }
      [] key = "assets" ->
           { (<<"f","a","r","m","e","r","_","i","d">> :> KnownKey) @@ (<<"i","t","e","m","_","n","a","m","e">> :> <<"P","l","o","u","g","h">>)
               @@ (<<"q","u","a","n","t","i","t","y">> :> <<"n","/","a">>),
             (<<"f","a","r","m","e","r","_","i","d">> :> KnownKey) @@ (<<"i","t","e","m","_","n","a","m","e">> :> <<"N","I","L">>)
               @@ (<<"q","u","a","n","t","i","t","y">> :> <<"4">>),
             (<<"a","s","s","e","t","_","i","d">> :> <<" ">>) @@ (<<"f","a","r","m","e","r","_","i","d">> :> KnownKey)
               @@ (<<"i","t","e","m","_","n","a","m","e">> :> <<"P","u","m","p">>) @@ (<<"q","u","a","n","t","i","t","y">> :> <<"1">>) }

\* perform_import(target, [row]) is called: lines 430-432.
StartRow ==
    /\ pc = "idle"
    /\ \E key \in TargetKeys : \E row \in RowPool(key) \cup VocabularyRows(key) :
         /\ target' = key
         /\ parsed_rows' = Number(<<row>>)
    /\ index' = 0
    /\ created' = 0
    /\ skipped' = 0
    /\ errors' = <<>>
    /\ store_before' = store
    /\ pc' = "loop"
    /\ UNCHANGED <<summary, store, uuid4_calls, range_validated, outcome, errored>>
    /\ UNCHANGED <<call_vars, view_vars>>

RowNext ==
    \/ StartRow
    \/ RowPrepareFails
    \/ RowSkipped
    \/ RowSaveFails
    \/ RowCreated
    \/ ReturnSummary

RowSpec == Init /\ [][RowNext]_vars

---------------------------------------------------------------------------
\* Calls of the conversion functions and of the header normaliser.

\* Longest header handed to normalise_header.
MaxHeaderLen == 4

\* Every spelling of a word in upper and lower case letters.
CaseVariants(word) ==
    { t \in [1..Len(word) -> {LowerChar(c) : c \in {word[i] : i \in 1..Len(word)}}
                             \cup {UpperChar(c) : c \in {word[i] : i \in 1..Len(word)}}] :
        \A i \in 1..Len(word) : LowerChar(t[i]) = LowerChar(word[i]) }

BooleanInputs ==
    UNION { CaseVariants(word) : word \in BOOLEAN_TRUE \cup BOOLEAN_FALSE }
    \cup { <<"m","a","y","b","e">>, <<"2">>, <<"1","0">>, <<"0","1">>, <<"o","n">>, <<"o","f","f">>, <<"t","r","u">>, <<"t","r","u","e","e">>,
           <<" ","y","e","s">>, <<"y","e","s"," ">>, <<"y","e"," ","s">>, <<"n","O","!">>, <<"-","1">>, <<"j","a">>, <<"o">> }

RECURSIVE NatToDigits(_)
NatToDigits(n) ==
    IF n < 10 THEN <<DigitChars[n + 1]>>
    ELSE NatToDigits(n \div 10) \o <<DigitChars[(n % 10) + 1]>>

ZeroPad(t, width) ==
    IF Len(t) >= width THEN t ELSE [i \in 1..(width - Len(t)) |-> "0"] \o t

\* The date written in one of the three formats, with or without the zero
\* padding of day and month.
WriteDate(year, month, day, fmt, padded) ==
    LET Y == ZeroPad(NatToDigits(year), 4)
        m == IF padded THEN ZeroPad(NatToDigits(month), 2) ELSE NatToDigits(month)
        d == IF padded THEN ZeroPad(NatToDigits(day), 2) ELSE NatToDigits(day)
    IN IF fmt.first = "Y" THEN Y \o <<fmt.sep>> \o m \o <<fmt.sep>> \o d
       ELSE d \o <<fmt.sep>> \o m \o <<fmt.sep>> \o Y

SampleYears == {1900, 2000, 2023, 2024}
SampleDays == {1, 9, 28, 29, 30, 31}

DateInputs ==
    { WriteDate(year, month, day, DATE_FORMATS[f], padded) :
        year \in SampleYears, month \in 1..12, day \in SampleDays,
        f \in 1..Len(DATE_FORMATS), padded \in BOOLEAN }
    \cup { <<"2","0","2","4","/","1","3","/","4","0">>, <<"2","0","2","4","/","0","1","/","3","1">>, <<"3","1",".","0","1",".","2","0","2","4">>, <<"2","0","2","4","-","0","1","-","3","1"," ">>,
           <<"2","4","-","0","1","-","3","1">>, <<"2","0","2","4","-","1","3","-","0","1">>, <<"2","0","2","4","-","0","0","-","1","0">>, <<"2","0","2","4","-","0","1","-","0","0">>,
           <<"0","0","0","0","-","0","1","-","0","1">>, <<"2","0","2","4","-","0","1","-","3","2">>, <<"3","1","-","0","1","-","2","0","2","4","x">>, <<"2","0","2","4","-","0","1","-"," ","1">>,
           <<" ","1","-","0","1","-","2","0","2","4">>, <<"3","1","-","0","1","/","2","0","2","4">>, <<"2","0","2","4","-","0","1">>, <<"3","1"," ","J","a","n"," ","2","0","2","4">>,
           <<"2","0","2","4","0","1","3","1">>, <<"2","0","2","4","-","0","1","-","3","1","-","0","1">> }

HeaderChars == {"a", "Z", "7", "_", " ", "-"}

HeaderInputs ==
    {None} \cup UNION { [1..n -> HeaderChars] : n \in 0..MaxHeaderLen }

ConvertInit ==
    /\ store = EmptyStore
    /\ range_validated = TRUE
    /\ ImportIdle
    /\ \/ call \in { Call("parse_boolean", arg) : arg \in BooleanInputs }
       \/ call \in { Call("parse_date", arg) : arg \in DateInputs }
       \/ call \in { Call("normalise_header", arg) : arg \in HeaderInputs }
    /\ returned = NoReturn
    /\ session = NoStorage
    /\ response = NoResponse
    /\ wizard = NoFarmer
    /\ survey_records = NoRelated

Pending(fn) == call.fn = fn /\ returned.kind = "none"

CallParseBoolean ==
    /\ Pending("parse_boolean")
    /\ returned' = Outcome_of(parse_boolean(call.arg))
    /\ UNCHANGED <<import_vars, call, view_vars>>

CallParseDate ==
    /\ Pending("parse_date")
    /\ returned' = Outcome_of(parse_date(call.arg))
    /\ UNCHANGED <<import_vars, call, view_vars>>

CallNormaliseHeader ==
    /\ Pending("normalise_header")
    /\ returned' = Returns(normalise_header(call.arg))
    /\ UNCHANGED <<import_vars, call, view_vars>>

ConvertNext ==
    \/ CallParseBoolean
    \/ CallParseDate
    \/ CallNormaliseHeader

ConvertSpec == ConvertInit /\ [][ConvertNext]_vars

---------------------------------------------------------------------------
\* Calls of the two parsers.

\* Most data lines of an uploaded file.
MaxLines == 3

HeaderLines == { <<"n","a","m","e",",","d","i","s","t","r","i","c","t">>, <<"N","a","m","e",",","H","o","m","e"," ","D","i","s","t","r","i","c","t">> }

\* A row of values, a row with padded values, an empty line, a row of
\* empty cells and a row of cells that hold only whitespace.
DataLines == { <<"A","s","h","a",",","S","o","l","a","p","u","r">>, <<" ","R","a","v","i"," ",",","P","u","n","e">>, <<>>, <<",">>, <<" ", ",", "\t">> }

\* The text of a file: every line ended by a line feed.
RECURSIVE text_of(_)
text_of(lines) ==
    IF lines = <<>> THEN <<>> ELSE Head(lines) \o <<"\n">> \o text_of(Tail(lines))

WellFormedFiles ==
    { text_of(<<header>> \o lines) :
        header \in HeaderLines, lines \in SeqsUpTo(DataLines, MaxLines) }

\* Files that are empty, not UTF-8, marked with a byte order mark, without
\* a header, without a final line feed, or with CR LF line ends.
OtherFiles ==
    { <<>>,
      <<BOM>>,
      <<InvalidByte>>,
      <<"n","a","m","e",",","d","i","s","t","r","i","c","t">> \o <<"\n", InvalidByte, "\n">>,
      <<BOM>> \o text_of(<< <<"n","a","m","e",",","d","i","s","t","r","i","c","t">>, <<"A","s","h","a",",","S","o","l","a","p","u","r">> >>),
      <<"\n">>,
      <<"\n">> \o text_of(<< <<"n","a","m","e",",","d","i","s","t","r","i","c","t">>, <<"A","s","h","a",",","S","o","l","a","p","u","r">> >>),
      <<"n","a","m","e",",","d","i","s","t","r","i","c","t">>,
      text_of(<< <<"n","a","m","e",",","d","i","s","t","r","i","c","t">> >>) \o <<"A","s","h","a",",","S","o","l","a","p","u","r">>,
      text_of(<< <<"n","a","m","e",",","d","i","s","t","r","i","c","t">> \o <<"\r">>, <<"A","s","h","a",",","S","o","l","a","p","u","r">> \o <<"\r">> >>),
      text_of(<< <<"N","a","m","e",",","n","a","m","e">>, <<"A","s","h","a",",","R","a","v","i">>, <<"A","s","h","a",",">> >>) }

UploadedFiles == WellFormedFiles \cup OtherFiles

ParseInit ==
    /\ store = EmptyStore
    /\ range_validated = TRUE
    /\ ImportIdle
    /\ \/ call \in { Call("parse_uploaded_file", raw_bytes) : raw_bytes \in UploadedFiles }
       \/ call \in { Call("parse_csv", raw_bytes) : raw_bytes \in UploadedFiles }
    /\ returned = NoReturn
    /\ session = NoStorage
    /\ response = NoResponse
    /\ wizard = NoFarmer
    /\ survey_records = NoRelated

CallParseUploadedFile ==
    /\ Pending("parse_uploaded_file")
    /\ returned' = parse_uploaded_file(call.arg)
    /\ UNCHANGED <<import_vars, call, view_vars>>

CallParseCsv ==
    /\ Pending("parse_csv")
    /\ returned' = parse_csv(call.arg)
    /\ UNCHANGED <<import_vars, call, view_vars>>

ParseNext ==
    \/ CallParseUploadedFile
    \/ CallParseCsv

ParseSpec == ParseInit /\ [][ParseNext]_vars

---------------------------------------------------------------------------
\* Imports of rows that supply the target's own primary key: the key of
\* the farmer on record (as stored and in upper case), a key of no record,
\* rows that leave the key to the default, and a blank row.

\* Most rows of such a batch.
MaxKeyedRows == 2

FreeKey == <<"c","c","c","c","c","c","c","c","-","c","c","c","c","-","4","c","c","c","-","8","c","c","c","-","c","c","c","c","c","c","c","c","c","c","c","c">>

KeyedRows(key) ==
    CASE key = "farmers" ->
           { (<<"f","a","r","m","e","r","_","i","d">> :> KnownKey) @@ (<<"n","a","m","e">> :> <<"A","s","h","a">>) @@ (<<"d","i","s","t","r","i","c","t">> :> <<"P","u","n","e">>),
             (<<"f","a","r","m","e","r","_","i","d">> :> <<"A","A","A","A","A","A","A","A","-","A","A","A","A","-","4","A","A","A","-","8","A","A","A","-","A","A","A","A","A","A","A","A","A","A","A","A">>) @@ (<<"n","a","m","e">> :> <<"R","a","h","u","l">>),
             (<<"f","a","r","m","e","r","_","i","d">> :> FreeKey) @@ (<<"n","a","m","e">> :> <<"A","s","h","a">>),
             (<<"n","a","m","e">> :> <<"N","a","n","d","i","n","i">>),
             (<<"f","a","r","m","e","r","_","i","d">> :> <<"N","A">>) @@ (<<"n","a","m","e">> :> <<>>) }
      [] key = "land_holdings" ->
           { (<<"l","a","n","d","_","i","d">> :> FreeKey) @@ (<<"f","a","r","m","e","r","_","i","d">> :> KnownKey) @@ (<<"c","a","t","e","g","o","r","y">> :> <<"I","r","r","i","g","a","t","e","d">>),
             (<<"l","a","n","d","_","i","d">> :> FreeKey) @@ (<<"f","a","r","m","e","r","_","i","d">> :> KnownKey) @@ (<<"c","a","t","e","g","o","r","y">> :> <<"S","e","a","s","o","n","a","l">>),
             (<<"f","a","r","m","e","r","_","i","d">> :> KnownKey) @@ (<<"c","a","t","e","g","o","r","y">> :> <<"I","r","r","i","g","a","t","e","d">>) }
      [] key = "assets" ->
           { (<<"a","s","s","e","t","_","i","d">> :> FreeKey) @@ (<<"f","a","r","m","e","r","_","i","d">> :> KnownKey) @@ (<<"i","t","e","m","_","n","a","m","e">> :> <<"P","l","o","u","g","h">>),
             (<<"a","s","s","e","t","_","i","d">> :> KnownKey) @@ (<<"f","a","r","m","e","r","_","i","d">> :> KnownKey) @@ (<<"i","t","e","m","_","n","a","m","e">> :> <<"P","u","m","p">>) }

\* perform_import(target, parsed_rows) is called: lines 430-432.
StartKeyed ==
    /\ pc = "idle"
    /\ \E key \in TargetKeys : \E rows \in SeqsUpTo(KeyedRows(key), MaxKeyedRows) :
         /\ rows # <<>>
         /\ target' = key
         /\ parsed_rows' = Number(rows)
    /\ index' = 0
    /\ created' = 0
    /\ skipped' = 0
    /\ errors' = <<>>
    /\ store_before' = store
    /\ pc' = "loop"
    /\ UNCHANGED <<summary, store, uuid4_calls, range_validated, outcome, errored>>
    /\ UNCHANGED <<call_vars, view_vars>>

KeyedNext ==
    \/ StartKeyed
    \/ RowPrepareFails
    \/ RowSkipped
    \/ RowSaveFails
    \/ RowCreated
    \/ ReturnSummary

KeyedSpec == Init /\ [][KeyedNext]_vars

---------------------------------------------------------------------------
\* A file parsed by parse_uploaded_file and its rows handed to
\* perform_import, as the bulk import does with an upload.

\* Most data lines of such a file.
MaxUploadLines == 2

\* A row of values, rows of empty and of whitespace cells, rows of tokens
\* of the empty-value vocabulary (plain and padded), a row without a name,
\* a row whose name is such a token, a row with a negative number and a
\* row of such a token and an empty cell.
UploadLines ==
    { <<"A","s","h","a",",","3">>, <<",">>, <<" ", ",", "\t">>, <<"N","A",",","n","/","a">>, <<" ","n","o","n","e"," ",",","N","U","L","L">>,
      <<",","7">>, <<"n","i","l",",","7">>, <<"A","s","h","a",",","-","3">>, <<"N","A",",">> }

FarmerFiles ==
    { text_of(<< <<"n","a","m","e",",","f","a","r","m","i","n","g","_","e","x","p","e","r","i","e","n","c","e","_","y","e","a","r","s">> >> \o lines) :
        lines \in SeqsUpTo(UploadLines, MaxUploadLines) }

UploadInit ==
    /\ store = EmptyStore
    /\ range_validated = TRUE
    /\ ImportIdle
    /\ call \in { Call("parse_uploaded_file", raw_bytes) : raw_bytes \in FarmerFiles }
    /\ returned = NoReturn
    /\ session = NoStorage
    /\ response = NoResponse
    /\ wizard = NoFarmer
    /\ survey_records = NoRelated

\* perform_import(target, parsed.rows) is called with the rows of the
\* dataset the parser returned: lines 430-432.
StartParsed ==
    /\ pc = "idle"
    /\ returned.kind = "return"
    /\ target' = "farmers"
    /\ parsed_rows' = returned.value.rows
    /\ index' = 0
    /\ created' = 0
    /\ skipped' = 0
    /\ errors' = <<>>
    /\ store_before' = store
    /\ pc' = "loop"
    /\ UNCHANGED <<summary, store, uuid4_calls, range_validated, outcome, errored>>
    /\ UNCHANGED <<call_vars, view_vars>>

UploadNext ==
    \/ CallParseUploadedFile
    \/ StartParsed
    \/ RowPrepareFails
    \/ RowSkipped
    \/ RowSaveFails
    \/ RowCreated
    \/ ReturnSummary

UploadSpec == UploadInit /\ [][UploadNext]_vars

---------------------------------------------------------------------------
\* perform_import as one call: every summary, store and number of
\* uuid4() draws it can end with (views.py calls it inside one request).

ImportState(c, s, e, st, n) ==
    [created |-> c, skipped |-> s, errors |-> e, store |-> st, uuid4_calls |-> n,
     raised |-> FALSE]

\* One pass of the loop body over a row, for one result of prepare_row.
import_row(t, row, p, s, validated) ==
    IF p.kind = "raise"
    THEN IF p.exc = "ValueError"
         THEN [s EXCEPT !.errors = Record(@, row.line_number, p.message, row.values)]
         ELSE [s EXCEPT !.raised = TRUE]
    ELSE IF p.is_none \/ p.payload = <<>>
    THEN [s EXCEPT !.skipped = @ + 1]
    ELSE LET result == save(t.model, p.payload, s.store, s.uuid4_calls, validated)
             drawn == IF UsesDefaultPk(t.model, p.payload)
                      THEN s.uuid4_calls + 1 ELSE s.uuid4_calls
         IN IF result.ok
            THEN [s EXCEPT !.created = @ + 1,
                           !.store = [@ EXCEPT ![t.model] = @ \cup {result.instance}],
                           !.uuid4_calls = drawn]
            ELSE IF result.exc \notin {"ValidationError", "IntegrityError"}
            THEN [s EXCEPT !.raised = TRUE, !.uuid4_calls = drawn]
            ELSE [s EXCEPT !.errors = Record(@, row.line_number,
                                             format_validation_error(result), row.values),
                           !.uuid4_calls = drawn]

RECURSIVE import_rows(_, _, _, _, _)
import_rows(t, rows, k, s, validated) ==
    IF k > Len(rows) \/ s.raised THEN {s}
    ELSE UNION { import_rows(t, rows, k + 1, import_row(t, rows[k], p, s, validated),
                             validated)
                 : p \in prepare_row(t, rows[k].values, s.store) }

perform_import(t, rows, st, n, validated) ==
    { [summary |-> ImportSummary(Len(rows), s.created, s.skipped, s.errors),
       store |-> s.store, uuid4_calls |-> s.uuid4_calls, raised |-> s.raised]
      : s \in import_rows(t, rows, 1, ImportState(0, 0, <<>>, st, n), validated) }

---------------------------------------------------------------------------
\* BulkImportWizardView (views.py, the class as last defined).

\* An import starts only while fewer than MaxDraws uuid4() keys are drawn.
MaxDraws == 1

\* ImportTarget.humanised_column for a column of the field map.
humanised_column(t, column) ==
    LET k == CHOOSE k \in 1..Len(t.field_map) : t.field_map[k][1] = column
        field == get_field(t.model, t.field_map[k][2])
    IN IF field.kind = "ForeignKey"
       THEN capfirst(verbose_name(field) \o <<" ","i","d">>)
       ELSE capfirst(verbose_name(field))

\* sorted(target.required - available_columns), as a set.
missing_columns(t, storage) ==
    {required \in t.required :
        \A i \in 1..Len(storage.columns) : storage.columns[i] # required}

\* context["can_import"]
can_import(t, storage) == Len(storage.rows) > 0 /\ missing_columns(t, storage) = {}

\* The uploads of the model: a farmers file, a file of two rows the first
\* of which has no name, a file without any required column, an assets
\* file, a file of a header alone, bytes that are not UTF-8 and an empty
\* file.
WizardFiles ==
    { text_of(<< <<"n","a","m","e",",","d","i","s","t","r","i","c","t">>, <<"A","s","h","a",",","S","o","l","a","p","u","r">> >>),
      text_of(<< <<"n","a","m","e",",","d","i","s","t","r","i","c","t">>, <<",","S","o","l","a","p","u","r">>, <<"A","s","h","a",",","P","u","n","e">> >>),
      text_of(<< <<"d","i","s","t","r","i","c","t",",","r","e","m","a","r","k","s">>, <<"S","o","l","a","p","u","r",",","n","e","w">> >>),
      text_of(<< <<"f","a","r","m","e","r","_","i","d",",","i","t","e","m","_","n","a","m","e">>, KnownKey \o <<",","P","l","o","u","g","h">> >>),
      text_of(<< <<"n","a","m","e",",","d","i","s","t","r","i","c","t">> >>),
      <<InvalidByte>>,
      <<>> }

\* importers.parse_uploaded_file(uploaded_file) for each upload.
parsed_uploads == [uploaded_file \in WizardFiles |-> parse_uploaded_file(uploaded_file)]

\* The values of the form's target field: the registered keys and one
\* that is not a choice.
PostedTargets == TargetKeys \cup {"unknown"}

\* GET of the upload step: render_upload.
GetUpload ==
    /\ response' = Response("GET import", "render", "import_wizard_upload.html",
                            <<>>, {}, FALSE, NoSummary)
    /\ UNCHANGED <<import_vars, call_vars, session, wizard, survey_records>>

\* handle_upload dropping the stored upload when the new file fails to
\* parse.
PostUpload_clearing ==
    /\ \E key \in PostedTargets : \E uploaded_file \in WizardFiles :
         IF key \notin TargetKeys \/ uploaded_file = <<>>
         THEN /\ response' = Response("POST import", "render", "import_wizard_upload.html",
                                      <<>>, {}, FALSE, NoSummary)
              /\ UNCHANGED session
         ELSE LET parsed == parsed_uploads[uploaded_file]
              IN IF parsed.kind = "raise"
                 THEN /\ response' = Response("POST import", "render",
                                              "import_wizard_upload.html",
                                              parsed.message, {}, FALSE, NoSummary)
                      /\ session' = NoStorage
                 ELSE /\ session' = Storage(key, parsed.value.columns,
                                            parsed.value.original_headers,
                                            parsed.value.rows)
                      /\ response' = Response("POST import", "redirect",
                                              "pmksy:import-preview",
                                              <<"F","i","l","e"," ","p","a","r","s","e","d"," ","s","u","c","c","e","s","s","f","u","l","l","y","."," ","R","e","v","i","e","w"," ","t","h","e"," ","p","r","e","v","i","e","w"," ","b","e","f","o","r","e"," ","i","m","p","o","r","t","i","n","g",".">>,
                                              {}, FALSE, NoSummary)
    /\ UNCHANGED <<import_vars, call_vars, wizard, survey_records>>

\* POST of the upload step: handle_upload.  The form is invalid for a
\* target that is not a choice and for an empty file.
PostUpload ==
    /\ \E key \in PostedTargets : \E uploaded_file \in WizardFiles :
         IF key \notin TargetKeys \/ uploaded_file = <<>>
         THEN /\ response' = Response("POST import", "render", "import_wizard_upload.html",
                                      <<>>, {}, FALSE, NoSummary)
              /\ UNCHANGED session
         ELSE LET parsed == parsed_uploads[uploaded_file]
              IN IF parsed.kind = "raise"
                 THEN /\ response' = Response("POST import", "render",
                                              "import_wizard_upload.html",
                                              parsed.message, {}, FALSE, NoSummary)
                      /\ UNCHANGED session
                 ELSE /\ session' = Storage(key, parsed.value.columns,
                                            parsed.value.original_headers,
                                            parsed.value.rows)
                      /\ response' = Response("POST import", "redirect",
                                              "pmksy:import-preview",
                                              <<"F","i","l","e"," ","p","a","r","s","e","d"," ","s","u","c","c","e","s","s","f","u","l","l","y","."," ","R","e","v","i","e","w"," ","t","h","e"," ","p","r","e","v","i","e","w"," ","b","e","f","o","r","e"," ","i","m","p","o","r","t","i","n","g",".">>,
                                              {}, FALSE, NoSummary)
    /\ UNCHANGED <<import_vars, call_vars, wizard, survey_records>>

\* GET of the preview step, and a POST of it that neither cancels nor
\* confirms: render_preview.
RenderPreview ==
    /\ IF ~session.stored
       THEN response' = Response("GET preview", "redirect", "pmksy:import",
                                 <<"U","p","l","o","a","d"," ","a"," ","C","S","V"," ","f","i","l","e"," ","t","o"," ","b","e","g","i","n"," ","a"," ","b","u","l","k"," ","i","m","p","o","r","t",".">>,
                                 {}, FALSE, NoSummary)
       ELSE LET t == ImportTarget(session.target)
            IN response' = Response("GET preview", "render", "import_wizard_preview.html",
                                    <<>>,
                                    {humanised_column(t, c) : c \in missing_columns(t, session)},
                                    FALSE, NoSummary)
    /\ UNCHANGED <<import_vars, call_vars, session, wizard, survey_records>>

\* POST of the preview step with "cancel".
PostCancel ==
    /\ session' = NoStorage
    /\ response' = Response("POST cancel", "redirect", "pmksy:import",
                            <<"B","u","l","k"," ","i","m","p","o","r","t"," ","c","a","n","c","e","l","l","e","d",".">>, {}, FALSE, NoSummary)
    /\ UNCHANGED <<import_vars, call_vars, wizard, survey_records>>

\* The level of the message of a finished import.
message_level(imported) ==
    IF imported.created > 0 /\ error_count(imported) = 0 THEN "success"
    ELSE IF imported.created > 0 THEN "warning" ELSE "error"

\* The answer after importers.perform_import: the preview template with
\* the summary, or the server error of an exception it let through.
import_response(t, done) ==
    IF done.raised
    THEN Response("POST confirm", "server error", "", <<>>, {}, FALSE, NoSummary)
    ELSE Response("POST confirm", "render", "import_wizard_preview.html",
                  IF message_level(done.summary) = "error"
                  THEN <<"N","o"," ","r","o","w","s"," ","w","e","r","e"," ","i","m","p","o","r","t","e","d","."," ","S","e","e"," ","t","h","e"," ","e","r","r","o","r"," ","d","e","t","a","i","l","s"," ","b","e","l","o","w",".">>
                  ELSE <<"I","m","p","o","r","t","e","d"," ">>,
                  {humanised_column(t, c) : c \in missing_columns(t, session)},
                  TRUE, done.summary)

\* The confirm handler without the can_import test.
PostConfirm_unguarded ==
    /\ session.stored => uuid4_calls < MaxDraws
    /\ IF ~session.stored
       THEN /\ response' = Response("POST confirm", "redirect", "pmksy:import",
                                    <<"U","p","l","o","a","d"," ","a"," ","C","S","V"," ","f","i","l","e"," ","t","o"," ","b","e","g","i","n"," ","a"," ","b","u","l","k"," ","i","m","p","o","r","t",".">>,
                                    {}, FALSE, NoSummary)
            /\ UNCHANGED <<session, store, uuid4_calls>>
       ELSE LET t == ImportTarget(session.target)
            IN \E done \in perform_import(t, session.rows, store, uuid4_calls,
                                          range_validated) :
                 /\ store' = done.store
                 /\ uuid4_calls' = done.uuid4_calls
                 /\ session' = IF done.raised THEN session ELSE NoStorage
                 /\ response' = import_response(t, done)
    /\ UNCHANGED <<pc, target, parsed_rows, index, created, skipped, errors, summary,
                   store_before, range_validated, outcome, errored, call_vars,
                   wizard, survey_records>>

\* The confirm handler without clear_storage.
PostConfirm_keeps_storage ==
    /\ (session.stored /\ can_import(ImportTarget(session.target), session))
         => uuid4_calls < MaxDraws
    /\ IF ~session.stored
       THEN /\ response' = Response("POST confirm", "redirect", "pmksy:import",
                                    <<"U","p","l","o","a","d"," ","a"," ","C","S","V"," ","f","i","l","e"," ","t","o"," ","b","e","g","i","n"," ","a"," ","b","u","l","k"," ","i","m","p","o","r","t",".">>,
                                    {}, FALSE, NoSummary)
            /\ UNCHANGED <<session, store, uuid4_calls>>
       ELSE LET t == ImportTarget(session.target)
            IN IF ~can_import(t, session)
               THEN /\ response' = Response("POST confirm", "render",
                                            "import_wizard_preview.html",
                                            <<"R","e","q","u","i","r","e","d"," ","c","o","l","u","m","n","s"," ","a","r","e"," ","m","i","s","s","i","n","g","."," ","U","p","d","a","t","e"," ","t","h","e"," ","f","i","l","e"," ","a","n","d"," ","t","r","y"," ","a","g","a","i","n",".">>,
                                            {humanised_column(t, c) : c \in missing_columns(t, session)},
                                            FALSE, NoSummary)
                    /\ UNCHANGED <<session, store, uuid4_calls>>
               ELSE \E done \in perform_import(t, session.rows, store, uuid4_calls,
                                               range_validated) :
                      /\ store' = done.store
                      /\ uuid4_calls' = done.uuid4_calls
                      /\ session' = session
                      /\ response' = import_response(t, done)
    /\ UNCHANGED <<pc, target, parsed_rows, index, created, skipped, errors, summary,
                   store_before, range_validated, outcome, errored, call_vars,
                   wizard, survey_records>>

\* POST of the preview step with "confirm": BulkImportWizardView.perform_import.
PostConfirm ==
    /\ (session.stored /\ can_import(ImportTarget(session.target), session))
         => uuid4_calls < MaxDraws
    /\ IF ~session.stored
       THEN /\ response' = Response("POST confirm", "redirect", "pmksy:import",
                                    <<"U","p","l","o","a","d"," ","a"," ","C","S","V"," ","f","i","l","e"," ","t","o"," ","b","e","g","i","n"," ","a"," ","b","u","l","k"," ","i","m","p","o","r","t",".">>,
                                    {}, FALSE, NoSummary)
            /\ UNCHANGED <<session, store, uuid4_calls>>
       ELSE LET t == ImportTarget(session.target)
            IN IF ~can_import(t, session)
               THEN /\ response' = Response("POST confirm", "render",
                                            "import_wizard_preview.html",
                                            <<"R","e","q","u","i","r","e","d"," ","c","o","l","u","m","n","s"," ","a","r","e"," ","m","i","s","s","i","n","g","."," ","U","p","d","a","t","e"," ","t","h","e"," ","f","i","l","e"," ","a","n","d"," ","t","r","y"," ","a","g","a","i","n",".">>,
                                            {humanised_column(t, c) : c \in missing_columns(t, session)},
                                            FALSE, NoSummary)
                    /\ UNCHANGED <<session, store, uuid4_calls>>
               ELSE \E done \in perform_import(t, session.rows, store, uuid4_calls,
                                               range_validated) :
                      /\ store' = done.store
                      /\ uuid4_calls' = done.uuid4_calls
                      /\ session' = IF done.raised THEN session ELSE NoStorage
                      /\ response' = import_response(t, done)
    /\ UNCHANGED <<pc, target, parsed_rows, index, created, skipped, errors, summary,
                   store_before, range_validated, outcome, errored, call_vars,
                   wizard, survey_records>>

WizardNext ==
    \/ GetUpload
    \/ PostUpload
    \/ RenderPreview
    \/ PostCancel
    \/ PostConfirm

WizardSpec == Init /\ [][WizardNext]_vars

---------------------------------------------------------------------------
\* The survey wizard (pmksy/views.py, SurveyWizardView): five steps, each a
\* model form, formsets of model forms, or both.
\*
\* Of the models that only the survey wizard writes the ones of one formset
\* per step are kept, and of each model the fields of every kind its form
\* distinguishes; the remaining formsets and fields repeat these kinds.

SurveyDeclarations(m) ==
    CASE m = "CropHistory" ->
           << Field(<<"c","r","o","p","_","h","i","s","t","_","i","d">>, "UUIDField", TRUE, FALSE, FALSE, ""),
              Field(<<"f","a","r","m","e","r">>, "ForeignKey", FALSE, FALSE, FALSE, "Farmer"),
              Field(<<"c","r","o","p","_","n","a","m","e">>, "CharField", FALSE, FALSE, FALSE, ""),
              Field(<<"a","r","e","a","_","h","a">>, "DecimalField", FALSE, TRUE, TRUE, "") >>
      [] m = "Enterprise" ->
           << Field(<<"e","n","t","e","r","p","r","i","s","e","_","i","d">>, "UUIDField", TRUE, FALSE, FALSE, ""),
              Field(<<"f","a","r","m","e","r">>, "ForeignKey", FALSE, FALSE, FALSE, "Farmer"),
              Field(<<"e","n","t","e","r","p","r","i","s","e","_","t","y","p","e">>, "CharField", FALSE, FALSE, FALSE, ""),
              Field(<<"n","u","m","b","e","r">>, "PositiveIntegerField", FALSE, FALSE, FALSE, "") >>
      [] m = "MigrationRecord" ->
           << Field(<<"m","i","g","r","a","t","i","o","n","_","i","d">>, "UUIDField", TRUE, FALSE, FALSE, ""),
              Field(<<"f","a","r","m","e","r">>, "ForeignKey", FALSE, FALSE, FALSE, "Farmer"),
              Field(<<"a","g","e","_","g","e","n","d","e","r">>, "CharField", FALSE, FALSE, FALSE, ""),
              Field(<<"r","e","m","i","t","t","a","n","c","e">>, "DecimalField", FALSE, TRUE, TRUE, "") >>
      [] m = "FinancialRecord" ->
           << Field(<<"f","i","n","_","i","d">>, "UUIDField", TRUE, FALSE, FALSE, ""),
              Field(<<"f","a","r","m","e","r">>, "ForeignKey", FALSE, FALSE, FALSE, "Farmer"),
              Field(<<"l","o","a","n">>, "BooleanField", FALSE, TRUE, FALSE, ""),
              Field(<<"l","o","a","n","_","p","u","r","p","o","s","e">>, "CharField", FALSE, TRUE, FALSE, "") >>

\* A value bound to a name once, as a local variable of the code is.
With(value, In(_)) == In(value)

AllModels == ModelNames \cup SurveyModels

META_FIELDS ==
    [m \in AllModels |->
        IF m \in ModelNames THEN ModelFields(m) ELSE SurveyDeclarations(m)]

\* Model._meta.fields of any model of the survey.
MetaFields(m) == META_FIELDS[m]

\* Model._meta.pk.name of any model of the survey.
PkName(m) ==
    With(MetaFields(m), LAMBDA fs :
      fs[CHOOSE i \in 1..Len(fs) : fs[i].primary_key].name)

farmer_fk == <<"f","a","r","m","e","r">>

\* The fields of the ModelForm of a model: Meta.exclude lists the primary
\* key and, but for FarmerForm, the farmer.
base_fields(m) ==
    SelectSeq(MetaFields(m), LAMBDA f : ~f.primary_key /\ f.kind # "ForeignKey")

\* __init__ of the forms: only FarmerForm's name stays required.
field_required(m, f) == m = "Farmer" /\ f.name = <<"n","a","m","e">>

\* Field.has_default(): the model declares a default for the field.
has_default(f) == f.kind \in {"PositiveIntegerField", "BooleanField", "UUIDField"}

\* Field.get_default() of a field that is not the primary key.
get_default(f) ==
    CASE f.kind = "CharField" -> StrV(<<>>)
      [] f.kind = "PositiveIntegerField" -> IntV(0)
      [] f.kind = "BooleanField" -> BoolV(FALSE)
      [] OTHER -> NoneV

\* The posted data of one form: a function from the names of the posted
\* fields to their text.  A field the request leaves out is not in its
\* domain.
value_omitted_from_data(f, data) ==
    f.kind # "BooleanField" /\ f.name \notin DOMAIN data

\* forms.Field.clean of the form field made of a model field: the widget's
\* value_from_datadict, to_python, the required check and the validators.
form_field_clean(m, f, data) ==
    With(IF f.name \in DOMAIN data THEN data[f.name] ELSE <<>>, LAMBDA text :
    With(strip(text), LAMBDA s :
      CASE f.kind = "BooleanField" ->
             Ok(BoolV(text # <<>> /\ lower(text) # <<"f","a","l","s","e">>))
        [] s = <<>> ->
             IF field_required(m, f)
             THEN Err("ValidationError", <<"T","h","i","s"," ","f","i","e","l","d"," ","i","s"," ","r","e","q","u","i","r","e","d",".">>)
             ELSE Ok(IF f.kind = "CharField" THEN StrV(<<>>) ELSE NoneV)
        [] f.kind = "CharField" -> Ok(StrV(s))
        [] f.kind = "PositiveIntegerField" ->
             With(parse_int(s), LAMBDA number :
               IF ~number.ok
               THEN Err("ValidationError", <<"E","n","t","e","r"," ","a"," ","w","h","o","l","e"," ","n","u","m","b","e","r",".">>)
               ELSE IF number.value.num < 0
                    THEN Err("ValidationError",
                             <<"E","n","s","u","r","e"," ","t","h","i","s"," ","v","a","l","u","e"," ","i","s"," ","g","r","e","a","t","e","r"," ","t","h","a","n"," ","o","r"," ","e","q","u","a","l"," ","t","o"," ","0",".">>)
                    ELSE number)
        [] f.kind = "DecimalField" ->
             With(parse_decimal(s), LAMBDA number :
               IF ~number.ok \/ Contains(s, <<",">>)
               THEN Err("ValidationError", <<"E","n","t","e","r"," ","a"," ","n","u","m","b","e","r",".">>)
               ELSE With(DecimalValidator(number.value), LAMBDA messages :
                      IF messages # <<>>
                      THEN Err("ValidationError", messages[1])
                      ELSE number))))

\* Form._clean_fields(): every field of the form cleaned, in the order of
\* the fields fs of the form.
form_clean_fields(m, fs, data) ==
    [i \in 1..Len(fs) |-> form_field_clean(m, fs[i], data)]

\* Form.cleaned_data after _clean_fields: the fields that cleaned.
cleaned_fields(fs, results) ==
    [name \in {fs[i].name : i \in {j \in 1..Len(fs) : results[j].ok}} |->
        results[CHOOSE i \in 1..Len(fs) : fs[i].name = name].value]

\* Form.errors after _clean_fields: the fields that did not clean.
field_errors(fs, results) ==
    {fs[i].name : i \in {j \in 1..Len(fs) : ~results[j].ok}}

\* ModelForm._get_validation_exclusions(): a field that failed, and a field
\* the model wants filled that the form made optional and that came empty,
\* are left out of the model's own validation.
get_validation_exclusions(m, fs, cleaned, failed) ==
    failed
    \cup {fs[i].name : i \in {j \in 1..Len(fs) :
             /\ fs[j].name \in DOMAIN cleaned
             /\ ~fs[j].blank
             /\ ~field_required(m, fs[j])
             /\ IsEmptyValue(cleaned[fs[j].name])}}

\* ModelForm._post_clean(): construct_instance, then
\* instance.full_clean(exclude=exclude): the fields the model rejects.
post_clean(m, fs, cleaned, failed) ==
    With(get_validation_exclusions(m, fs, cleaned, failed), LAMBDA exclude :
      {fs[i].name : i \in {j \in 1..Len(fs) :
         /\ fs[j].name \notin exclude
         /\ ~(fs[j].blank /\ IsEmptyValue(cleaned[fs[j].name]))
         /\ FieldClean(fs[j], cleaned[fs[j].name], TRUE) # <<>>}})

\* ModelForm.is_valid() of a form that must be filled in.
is_valid(m, fs, cleaned, failed) ==
    failed = {} /\ post_clean(m, fs, cleaned, failed) = {}

\* Field.has_changed(initial, data) against the initial data of a form
\* without instance, which are the defaults of the model.
blank_as_text(v) == IF v = NoneV THEN StrV(<<>>) ELSE v

field_has_changed(f, result) ==
    ~result.ok \/ blank_as_text(result.value) # blank_as_text(get_default(f))

\* Form.has_changed()
has_changed(fs, results) ==
    \E i \in 1..Len(fs) : field_has_changed(fs[i], results[i])

\* Form(data=request.POST) after full_clean(): its cleaned data, whether
\* it is valid and whether it has changed.
form_full_clean(m, data) ==
    With(base_fields(m), LAMBDA fs :
    With(form_clean_fields(m, fs, data), LAMBDA results :
    With(cleaned_fields(fs, results), LAMBDA cleaned :
    With(field_errors(fs, results), LAMBDA failed :
      [cleaned_data |-> cleaned,
       is_valid |-> is_valid(m, fs, cleaned, failed),
       has_changed |-> has_changed(fs, results)]))))

\* STEP_ORDER = tuple(STEP_CONFIG.keys())
STEP_ORDER == <<"farmer", "land", "production", "livelihoods", "resilience">>

\* STEP_CONFIG[step]["form"]: the model of the step's form, "" for None.
step_form(step) ==
    CASE step = "farmer" -> "Farmer"
      [] step = "resilience" -> "FinancialRecord"
      [] OTHER -> ""

\* STEP_CONFIG[step]["formsets"]: the keys of the step's formsets in order.
step_formsets(step) ==
    CASE step = "land" -> <<"land_holdings", "assets">>
      [] step = "production" -> <<"crop_history">>
      [] step = "livelihoods" -> <<"enterprises">>
      [] step = "resilience" -> <<"migration">>
      [] OTHER -> <<>>

\* formset.form._meta.model; FORMSET_RELATED_NAMES sends every key to the
\* related manager of this model.
formset_model(key) ==
    CASE key = "land_holdings" -> "LandHolding"
      [] key = "assets" -> "Asset"
      [] key = "crop_history" -> "CropHistory"
      [] key = "enterprises" -> "Enterprise"
      [] key = "migration" -> "MigrationRecord"

step_index(step) == CHOOSE i \in 1..Len(STEP_ORDER) : STEP_ORDER[i] = step

\* _previous_step and _next_step: "" for None.
previous_step(step) ==
    IF step_index(step) = 1 THEN "" ELSE STEP_ORDER[step_index(step) - 1]

next_step(step) ==
    IF step_index(step) + 1 > Len(STEP_ORDER) THEN ""
    ELSE STEP_ORDER[step_index(step) + 1]

\* One sub-form of a posted formset: its data and its DELETE box.
Subform(data, delete) == [data |-> data, DELETE |-> delete]

\* A request to a step of the survey wizard: whether "_prev" is posted, the
\* data of the step's form and the sub-forms of each of its formsets.
FormsetKeys == {"land_holdings", "assets", "crop_history", "enterprises", "migration"}

NoFormsets == [key \in FormsetKeys |-> <<>>]

Request(step, prev, form, formsets) ==
    [step |-> step, prev |-> prev, form |-> form, formsets |-> formsets]

NoRequest == Request("", FALSE, <<>>, NoFormsets)

\* The most keys uuid.uuid4 hands out in one run.
MaxSurveyDraws == 3

\* The farmer steps posted: as the tests post it, with another name and
\* the number left out of the request, without a name and with the number
\* emptied.
FarmerPosts ==
    { (<<"n","a","m","e">> :> <<"A","s","h","a">>) @@ (<<"f","a","r","m","i","n","g","_","e","x","p","e","r","i","e","n","c","e","_","y","e","a","r","s">> :> <<"0">>),
      (<<"n","a","m","e">> :> <<"M","e","e","r","a">>) @@ (<<"d","i","s","t","r","i","c","t">> :> <<"P","u","n","e">>),
      (<<"n","a","m","e">> :> <<" ">>) @@ (<<"f","a","r","m","i","n","g","_","e","x","p","e","r","i","e","n","c","e","_","y","e","a","r","s">> :> <<"-","1">>),
      (<<"n","a","m","e">> :> <<"A","s","h","a">>) @@ (<<"f","a","r","m","i","n","g","_","e","x","p","e","r","i","e","n","c","e","_","y","e","a","r","s">> :> <<>>) }

\* The formsets posted to each step: sub-forms with data, at their
\* defaults, marked for deletion, with a field that does not clean and
\* with an emptied number.
Irrigated == (<<"c","a","t","e","g","o","r","y">> :> <<"I","r","r","i","g","a","t","e","d">>) @@ (<<"t","o","t","a","l","_","a","r","e","a","_","h","a">> :> <<"2",".","5">>)
Rainfed == (<<"c","a","t","e","g","o","r","y">> :> <<"R","a","i","n","f","e","d">>) @@ (<<"t","o","t","a","l","_","a","r","e","a","_","h","a">> :> <<>>)
Plough == (<<"i","t","e","m","_","n","a","m","e">> :> <<"P","l","o","u","g","h">>) @@ (<<"q","u","a","n","t","i","t","y">> :> <<"2">>)

Formsets(key, subforms) == [NoFormsets EXCEPT ![key] = subforms]

LandPosts ==
    { Formsets("land_holdings", << Subform(Irrigated, FALSE) >>),
      [NoFormsets EXCEPT
         !["land_holdings"] = << Subform(Rainfed, FALSE), Subform(Irrigated, TRUE) >>,
         !["assets"] = << Subform(Plough, FALSE) >>],
      [NoFormsets EXCEPT
         !["land_holdings"] = << Subform((<<"c","a","t","e","g","o","r","y">> :> <<>>) @@ (<<"t","o","t","a","l","_","a","r","e","a","_","h","a">> :> <<>>), FALSE) >>,
         !["assets"] = << Subform((<<"i","t","e","m","_","n","a","m","e">> :> <<>>) @@ (<<"q","u","a","n","t","i","t","y">> :> <<"0">>), FALSE) >>],
      [NoFormsets EXCEPT
         !["land_holdings"] = << Subform((<<"c","a","t","e","g","o","r","y">> :> <<"R","a","i","n","f","e","d">>) @@ (<<"t","o","t","a","l","_","a","r","e","a","_","h","a">> :> <<"a","b","c">>), FALSE) >>,
         !["assets"] = << Subform(Plough, FALSE) >>],
      [NoFormsets EXCEPT
         !["land_holdings"] = << Subform(Rainfed, FALSE) >>,
         !["assets"] = << Subform((<<"i","t","e","m","_","n","a","m","e">> :> <<"P","l","o","u","g","h">>) @@ (<<"q","u","a","n","t","i","t","y">> :> <<>>), FALSE) >>] }

ProductionPosts ==
    { Formsets("crop_history", << Subform((<<"c","r","o","p","_","n","a","m","e">> :> <<"W","h","e","a","t">>) @@ (<<"a","r","e","a","_","h","a">> :> <<>>), FALSE) >>),
      Formsets("crop_history", << Subform((<<"c","r","o","p","_","n","a","m","e">> :> <<"W","h","e","a","t">>) @@ (<<"a","r","e","a","_","h","a">> :> <<"1",".","2","3","4">>), FALSE) >>) }

LivelihoodsPosts ==
    { Formsets("enterprises", << Subform((<<"e","n","t","e","r","p","r","i","s","e","_","t","y","p","e">> :> <<"D","a","i","r","y">>) @@ (<<"n","u","m","b","e","r">> :> <<"1">>), FALSE) >>),
      Formsets("enterprises", << Subform((<<"e","n","t","e","r","p","r","i","s","e","_","t","y","p","e">> :> <<"D","a","i","r","y">>) @@ (<<"n","u","m","b","e","r">> :> <<"x">>), FALSE) >>),
      Formsets("enterprises", << Subform((<<"e","n","t","e","r","p","r","i","s","e","_","t","y","p","e">> :> <<"D","a","i","r","y">>), FALSE) >>) }

ResiliencePosts ==
    { NoFormsets,
      Formsets("migration", << Subform((<<"a","g","e","_","g","e","n","d","e","r">> :> <<"2","5","M">>) @@ (<<"r","e","m","i","t","t","a","n","c","e">> :> <<>>), FALSE) >>),
      Formsets("migration", << Subform((<<"a","g","e","_","g","e","n","d","e","r">> :> <<"2","5","M">>) @@ (<<"r","e","m","i","t","t","a","n","c","e">> :> <<"1","2",",","5">>), FALSE) >>) }

FinancialPosts ==
    { (<<"l","o","a","n">> :> <<"o","n">>) @@ (<<"l","o","a","n","_","p","u","r","p","o","s","e">> :> <<"C","r","o","p"," ","i","n","p","u","t","s">>) }

\* The requests posted to a step.
Posts(step, forms, formsets) ==
    {Request(step, FALSE, form, posted) : form \in forms, posted \in formsets}

\* The forms the requests post, each bound and cleaned once.
PostedForms ==
    {<<"Farmer", data>> : data \in FarmerPosts \cup {<<>>}}
    \cup {<<"FinancialRecord", data>> : data \in FinancialPosts \cup {<<>>}}
    \cup UNION { {<<formset_model(key), posted[key][i].data>> : i \in 1..Len(posted[key])} :
                 key \in FormsetKeys,
                 posted \in LandPosts \cup ProductionPosts \cup LivelihoodsPosts
                            \cup ResiliencePosts }

bound_forms ==
    [posted \in PostedForms |-> form_full_clean(posted[1], posted[2])]

\* The bound form of the model form of m.
BoundForm(m, data) == bound_forms[<<m, data>>]

\* str(uuid.UUID): the hex digits in groups of 8-4-4-4-12.
str_of_uuid(v) ==
    SubSeq(v.text, 1, 8) \o <<"-">> \o SubSeq(v.text, 9, 12) \o <<"-">>
    \o SubSeq(v.text, 13, 16) \o <<"-">> \o SubSeq(v.text, 17, 20) \o <<"-">>
    \o SubSeq(v.text, 21, 32)

\* The database as one function of the model names.
Tables == [m \in AllModels |-> IF m \in ModelNames THEN store[m] ELSE survey_records[m]]

\* farmer.<related_name>.all()
related_records(tables, m, farmer_pk) == {r \in tables[m] : r[farmer_fk] = farmer_pk}

\* The texts a session can hold, each parsed once as
\* Farmer.objects.get(pk=farmer_id) parses it.
stored_keys ==
    [text \in {str_of_uuid(uuid4(n)) : n \in 0..MaxSurveyDraws} |-> parse_uuid(text)]

\* _get_farmer: the Farmer the session names, None when it names none or
\* one that is gone (the entry is then cleared).
get_farmer(storage, tables) ==
    IF storage = NoFarmer
    THEN [farmer |-> NoneV, storage |-> storage]
    ELSE With(stored_keys[storage].value, LAMBDA key :
         With(PkName("Farmer"), LAMBDA pk :
           IF \E r \in tables["Farmer"] : r[pk] = key
           THEN [farmer |-> key, storage |-> storage]
           ELSE [farmer |-> NoneV, storage |-> NoFarmer]))

\* _store_farmer
store_farmer(farmer_pk) == str_of_uuid(farmer_pk)

\* What a handler has done to the database and the session when it returns
\* or when an exception leaves it: no transaction spans a request, so what
\* was written before an exception stays.
Persisted(tables, n, farmer, storage, raised) ==
    [tables |-> tables, uuid4_calls |-> n, farmer |-> farmer, storage |-> storage,
     raised |-> raised]

\* The columns of an instance that are NOT NULL and hold None: the INSERT
\* or UPDATE raises IntegrityError.
NotNullViolations(m, inst) ==
    With(MetaFields(m), LAMBDA fs :
      {i \in 1..Len(fs) : ~fs[i].null /\ inst[fs[i].name] = NoneV})

\* Model(): every field at its default.
blank_instance(m, n) ==
    With(MetaFields(m), LAMBDA fs :
      [name \in {fs[i].name : i \in 1..Len(fs)} |->
         With(fs[CHOOSE i \in 1..Len(fs) : fs[i].name = name], LAMBDA f :
           IF f.primary_key THEN uuid4(n) ELSE get_default(f))])

\* construct_instance: the cleaned data are put on the instance; a field
\* with a default that the request left out keeps its value.
construct_instance(m, data, instance) ==
    With(base_fields(m), LAMBDA fs :
    With(BoundForm(m, data).cleaned_data, LAMBDA cleaned :
    With({fs[i].name : i \in {j \in 1..Len(fs) :
             \/ fs[j].name \notin DOMAIN cleaned
             \/ /\ has_default(fs[j])
                /\ value_omitted_from_data(fs[j], data)
                /\ IsEmptyValue(cleaned[fs[j].name])}}, LAMBDA kept :
      [name \in DOMAIN instance |->
         IF name \in DOMAIN cleaned /\ name \notin kept
         THEN cleaned[name] ELSE instance[name]])))

\* Model.save(): the row of the instance's key is written.
write(tables, m, inst) ==
    With(PkName(m), LAMBDA pk :
      [tables EXCEPT ![m] = {r \in @ : r[pk] # inst[pk]} \cup {inst}])

\* _get_form_instance, lines 213-226: the records the form of a step can be
\* bound to, the session farmer or the farmer's FinancialRecords.
get_form_instance(m, pk, db) ==
    IF m = "Farmer"
    THEN {r \in db.tables[m] : r[pk] = db.farmer}
    ELSE related_records(db.tables, m, db.farmer)

\* form.save(commit=False) of the form of a step: the instance the form is
\* bound to, or a new one, with the cleaned data and the farmer put on it.
form_instance(m, data, existing, db) ==
    With(construct_instance(m, data,
                            IF existing # {} THEN CHOOSE r \in existing : TRUE
                            ELSE blank_instance(m, db.uuid4_calls)), LAMBDA built :
      IF m = "Farmer" THEN built ELSE [built EXCEPT ![farmer_fk] = db.farmer])

\* _save_form, lines 268-297.
save_form_keeps_others(step, data, db) ==
    With(step_form(step), LAMBDA m :
    With(PkName(m), LAMBDA pk :
    With(get_form_instance(m, pk, db), LAMBDA existing :
    With(IF existing # {} THEN db.uuid4_calls ELSE db.uuid4_calls + 1, LAMBDA n :
    With(form_instance(m, data, existing, db), LAMBDA saved :
      IF m # "Farmer" /\ db.farmer = NoneV
      THEN db
      ELSE IF NotNullViolations(m, saved) # {}
           THEN Persisted(db.tables, n, db.farmer, db.storage, TRUE)
           ELSE IF m = "Farmer"
                THEN Persisted(write(db.tables, m, saved), n, saved[pk],
                               store_farmer(saved[pk]), FALSE)
                ELSE Persisted(write(db.tables, m, saved), n, db.farmer,
                               db.storage, FALSE))))))

save_form(step, data, db) ==
    With(step_form(step), LAMBDA m :
    With(PkName(m), LAMBDA pk :
    With(get_form_instance(m, pk, db), LAMBDA existing :
    With(IF existing # {} THEN db.uuid4_calls ELSE db.uuid4_calls + 1, LAMBDA n :
    With(form_instance(m, data, existing, db), LAMBDA saved :
      IF m # "Farmer" /\ db.farmer = NoneV
      THEN db
      ELSE IF NotNullViolations(m, saved) # {}
           THEN Persisted(db.tables, n, db.farmer, db.storage, TRUE)
           ELSE IF m = "Farmer"
                THEN Persisted(write(db.tables, m, saved), n, saved[pk],
                               store_farmer(saved[pk]), FALSE)
                ELSE Persisted([write(db.tables, m, saved) EXCEPT
                                  ![m] = {r \in @ : \/ r[farmer_fk] # db.farmer
                                                    \/ r[pk] = saved[pk]}],
                               n, db.farmer, db.storage, FALSE))))))

\* BaseFormSet.is_valid(): the sub-forms not marked for deletion are valid.
\* A sub-form whose data are the defaults is valid with no cleaned data,
\* whether empty_permitted lets it skip the cleaning or not, since no field
\* of these forms is required.
formset_is_valid(key, subforms) ==
    \A i \in 1..Len(subforms) :
        With(BoundForm(formset_model(key), subforms[i].data), LAMBDA form :
          subforms[i].DELETE \/ ~form.has_changed \/ form.is_valid)

\* The loop over the sub-forms of one formset, lines 319-334.
RECURSIVE save_subforms(_, _, _, _)
save_subforms(m, subforms, k, db) ==
    IF k > Len(subforms) \/ db.raised THEN db
    ELSE With(BoundForm(m, subforms[k].data), LAMBDA form :
           IF subforms[k].DELETE \/ ~form.has_changed
           THEN save_subforms(m, subforms, k + 1, db)
           ELSE With(blank_instance(m, db.uuid4_calls), LAMBDA blank :
                With([name \in DOMAIN blank |->
                        IF name = farmer_fk THEN db.farmer
                        ELSE IF name \in DOMAIN form.cleaned_data
                             THEN form.cleaned_data[name]
                             ELSE blank[name]], LAMBDA obj :
                  IF NotNullViolations(m, obj) # {}
                  THEN Persisted(db.tables, db.uuid4_calls + 1, db.farmer,
                                 db.storage, TRUE)
                  ELSE save_subforms(m, subforms, k + 1,
                           Persisted(write(db.tables, m, obj), db.uuid4_calls + 1,
                                     db.farmer, db.storage, FALSE)))))

\* _save_formsets, lines 299-334: manager.all().delete(), then the loop.
RECURSIVE save_formsets(_, _, _, _)
save_formsets(keys, formsets, k, db) ==
    IF k > Len(keys) \/ db.raised THEN db
    ELSE With(formset_model(keys[k]), LAMBDA m :
           save_formsets(keys, formsets, k + 1,
               save_subforms(m, formsets[keys[k]], 1,
                   [db EXCEPT !.tables[m] = {r \in @ : r[farmer_fk] # db.farmer}])))

\* _persist_step, lines 251-266.
persist_step(step, form, formsets, db) ==
    With(IF step_form(step) # "" THEN save_form(step, form, db) ELSE db,
         LAMBDA after_form :
           IF after_form.raised \/ after_form.farmer = NoneV
           THEN after_form
           ELSE save_formsets(step_formsets(step), formsets, 1, after_form))

\* What the survey wizard answers.
Redirect(request, step) == Response(request, "redirect", step, <<>>, {}, FALSE, NoSummary)
Render(request, template) == Response(request, "render", template, <<>>, {}, FALSE, NoSummary)
ServerError(request) == Response(request, "server error", "", <<>>, {}, FALSE, NoSummary)

\* The variables no handler of the survey wizard writes.
survey_frame == <<pc, target, parsed_rows, index, created, skipped, errors, summary,
                  store_before, range_validated, outcome, errored, returned, session>>

\* The handler writes the database and the session.
Commit(done) ==
    /\ store' = [m \in ModelNames |-> done.tables[m]]
    /\ survey_records' = [m \in SurveyModels |-> done.tables[m]]
    /\ uuid4_calls' = done.uuid4_calls
    /\ wizard' = done.storage

\* form.is_valid() and formset.is_valid() of everything the step has.
step_is_valid(request) ==
    /\ step_form(request.step) # ""
          => BoundForm(step_form(request.step), request.form).is_valid
    /\ \A i \in 1..Len(step_formsets(request.step)) :
          formset_is_valid(step_formsets(request.step)[i],
                           request.formsets[step_formsets(request.step)[i]])

\* SurveyWizardView.post, lines 110-142.
post(request) ==
    LET name == "POST " \o request.step
    IN /\ call' = Call(name, request)
       /\ IF request.prev /\ previous_step(request.step) # ""
          THEN /\ response' = Redirect(name, previous_step(request.step))
               /\ UNCHANGED <<store, survey_records, uuid4_calls, wizard>>
          ELSE \E found \in {get_farmer(wizard, Tables)} :
               \E before \in {Persisted(Tables, uuid4_calls, found.farmer,
                                        found.storage, FALSE)} :
               IF request.step # STEP_ORDER[1] /\ found.farmer = NoneV
               THEN /\ response' = Redirect(name, STEP_ORDER[1])
                    /\ Commit(before)
               ELSE IF ~step_is_valid(request)
                    THEN /\ response' = Render(name, "pmksy/wizard_form.html")
                         /\ Commit(before)
                    ELSE \E done \in {persist_step(request.step, request.form,
                                                   request.formsets, before)} :
                         /\ done.uuid4_calls <= MaxSurveyDraws
                         /\ Commit(IF done.raised \/ next_step(request.step) # ""
                                   THEN done ELSE [done EXCEPT !.storage = NoFarmer])
                         /\ response' =
                              IF done.raised THEN ServerError(name)
                              ELSE IF done.farmer = NoneV THEN Redirect(name, STEP_ORDER[1])
                              ELSE IF next_step(request.step) # ""
                                   THEN Redirect(name, next_step(request.step))
                                   ELSE Render(name, "pmksy/wizard_done.html")
       /\ UNCHANGED survey_frame

\* SurveyWizardView.get, lines 98-108.
GetStep ==
    \E step \in {STEP_ORDER[i] : i \in 1..Len(STEP_ORDER)} :
        LET name == "GET " \o step
            found == get_farmer(wizard, Tables)
        IN /\ call' = Call(name, Request(step, FALSE, <<>>, NoFormsets))
           /\ wizard' = found.storage
           /\ response' = IF step # STEP_ORDER[1] /\ found.farmer = NoneV
                          THEN Redirect(name, STEP_ORDER[1])
                          ELSE Render(name, "pmksy/wizard_form.html")
           /\ UNCHANGED <<store, survey_records, uuid4_calls>>
           /\ UNCHANGED survey_frame

PostFarmer ==
    \E request \in Posts("farmer", FarmerPosts, {NoFormsets}) : post(request)

PostLand ==
    \E request \in Posts("land", {<<>>}, LandPosts) : post(request)

PostProduction ==
    \E request \in Posts("production", {<<>>}, ProductionPosts) : post(request)

PostLivelihoods ==
    \E request \in Posts("livelihoods", {<<>>}, LivelihoodsPosts) : post(request)

PostResilience ==
    \E request \in Posts("resilience", FinancialPosts, ResiliencePosts) : post(request)

\* "_prev" is posted: to the first step, which has no step before it, and
\* to a later one.
PostPrevious ==
    \E step \in {STEP_ORDER[1], STEP_ORDER[2], STEP_ORDER[5]} :
        post(Request(step, TRUE, <<>>, NoFormsets))

\* Another request writes a FinancialRecord: the import target "financials"
\* creates one for a farmer that exists.
ImportFinancialRecord ==
    /\ uuid4_calls < MaxSurveyDraws
    /\ \E farmer \in store["Farmer"] :
         survey_records' =
           [survey_records EXCEPT !["FinancialRecord"] =
              @ \cup {[blank_instance("FinancialRecord", uuid4_calls)
                         EXCEPT ![farmer_fk] = farmer[PkName("Farmer")]]}]
    /\ uuid4_calls' = uuid4_calls + 1
    /\ call' = Call("import financials", NoRequest)
    /\ response' = Redirect("import financials", "pmksy:import")
    /\ UNCHANGED <<store, wizard>>
    /\ UNCHANGED survey_frame

\* The survey starts on a database without records or with the records of
\* one other farmer.
RahulsLand ==
    (<<"l","a","n","d","_","i","d">> :> uuid4(200)) @@ (<<"f","a","r","m","e","r">> :> Rahul[<<"f","a","r","m","e","r","_","i","d">>])
    @@ (<<"c","a","t","e","g","o","r","y">> :> StrV(<<"I","r","r","i","g","a","t","e","d">>)) @@ (<<"t","o","t","a","l","_","a","r","e","a","_","h","a">> :> NoneV)

RahulsPump ==
    (<<"a","s","s","e","t","_","i","d">> :> uuid4(201)) @@ (<<"f","a","r","m","e","r">> :> Rahul[<<"f","a","r","m","e","r","_","i","d">>])
    @@ (<<"i","t","e","m","_","n","a","m","e">> :> StrV(<<"P","u","m","p">>)) @@ (<<"q","u","a","n","t","i","t","y">> :> IntV(1))

SurveyInit ==
    /\ store \in { EmptyStore,
                   [EmptyStore EXCEPT !["Farmer"] = {Rahul},
                                      !["LandHolding"] = {RahulsLand},
                                      !["Asset"] = {RahulsPump}] }
    /\ range_validated = TRUE
    /\ ImportIdle
    /\ call = Call("none", NoRequest)
    /\ returned = NoReturn
    /\ session = NoStorage
    /\ response = NoResponse
    /\ wizard = NoFarmer
    /\ survey_records = NoRelated

SurveyNext ==
    \/ GetStep
    \/ PostFarmer
    \/ PostLand
    \/ PostProduction
    \/ PostLivelihoods
    \/ PostResilience
    \/ PostPrevious
    \/ ImportFinancialRecord

SurveySpec == SurveyInit /\ [][SurveyNext]_vars

---------------------------------------------------------------------------
\* Properties.

Running == pc \in {"loop", "done", "raised"}

\* The row the loop body handled last, once it has handled one.
Handled == Running /\ index > 0
last_row == parsed_rows[index]

AllBlank(values) == \A c \in DOMAIN values : is_empty(values[c])

MissingRequired(key, values) ==
    {required \in ImportTarget(key).required : is_empty(RowGet(values, required))}

\* C1: at every point of an import the rows handled so far are exactly the
\* created, the skipped and the errored ones, and the returned summary has
\* total_rows = created + skipped + number of errored rows, whether or not
\* the errored rows were retained in errors.
C1_TotalIsSumOfOutcomes ==
    /\ Running => index = created + skipped + errored
    /\ pc = "done" =>
         /\ summary.total_rows = summary.created + summary.skipped + errored
         /\ summary.total_rows = Len(parsed_rows)

C1_Witness ==
    /\ pc = "done"
    /\ errored > MAX_ERRORS_REPORTED
    /\ error_count(summary) < errored
    /\ summary.created > 0

\* C2: errors never holds more than 50 entries; when more than 50 rows
\* fail it holds exactly 50 and total_rows is still the number of rows.
C2_ErrorsCapped ==
    /\ Len(errors) <= 50
    /\ error_count(summary) <= 50
    /\ (Running /\ errored <= 50) => Len(errors) = errored
    /\ (Running /\ errored > 50) => Len(errors) = 50
    /\ (pc = "done" /\ errored > 50) =>
         /\ error_count(summary) = 50
         /\ summary.total_rows = Len(parsed_rows)

C2_Witness ==
    /\ pc = "done"
    /\ Len(parsed_rows) >= 60
    /\ errored = Len(parsed_rows)
    /\ error_count(summary) = 50
    /\ summary.total_rows = Len(parsed_rows)

\* C3: a failing row never ends the import: the loop moves on to the next
\* row, every row gets exactly one outcome, nothing is raised to the
\* caller, and the import ends by returning a summary of all the rows.
C3_RowFailureNeverAborts ==
    /\ [](pc # "raised")
    /\ [][InLoop => /\ pc' = "loop"
                    /\ index' = index + 1
                    /\ created' + skipped' + errored' = created + skipped + errored + 1
                    /\ outcome'.row_number = parsed_row.line_number
                    /\ outcome'.kind \in {"skip", "error", "create"}]_vars
    /\ [](pc = "done" =>
            /\ index = Len(parsed_rows)
            /\ summary.total_rows = Len(parsed_rows)
            /\ summary.created + summary.skipped + errored = Len(parsed_rows))

C3_Witness ==
    /\ pc = "done"
    /\ errored > 0
    /\ outcome.kind = "create"
    /\ Len(parsed_rows) = 2

\* C4: the import only inserts: the store always holds the records it held
\* before the import plus exactly `created` new records of the target's
\* model, and no step of the import removes or changes a stored record.
C4_InsertOnly ==
    /\ [](Running =>
            /\ \A m \in ModelNames : store_before[m] \subseteq store[m]
            /\ \A m \in ModelNames \ {ImportTarget(target).model} :
                  store[m] = store_before[m]
            /\ Cardinality(store[ImportTarget(target).model])
                 = Cardinality(store_before[ImportTarget(target).model]) + created)
    /\ [](pc = "done" =>
            Cardinality(store[ImportTarget(target).model])
              = Cardinality(store_before[ImportTarget(target).model]) + summary.created)
    /\ [][\A m \in ModelNames : store[m] \subseteq store'[m]]_vars

C4_Witness ==
    /\ pc = "done"
    /\ store_before[ImportTarget(target).model] # {}
    /\ summary.created > 0
    /\ errored > 0
    /\ outcome.kind = "error"

\* C5: a row whose cells are all empty or in the empty-value vocabulary is
\* skipped, whatever the target: it is never retained as an error and no
\* record is created for it.
C5_BlankRowSkipped ==
    /\ (Handled /\ AllBlank(last_row.values)) =>
          /\ outcome.kind = "skip"
          /\ outcome.row_number = last_row.line_number
    /\ \A i \in 1..Len(errors) : ~AllBlank(errors[i].values)
    /\ [][(InLoop /\ AllBlank(parsed_row.values)) =>
            (skipped' = skipped + 1 /\ created' = created /\ store' = store
             /\ errors' = errors /\ errored' = errored)]_vars

C5_Witness ==
    /\ Handled
    /\ AllBlank(last_row.values)
    /\ outcome.kind = "skip"
    /\ MissingRequired(target, last_row.values) # {}
    /\ \E c \in DOMAIN last_row.values : last_row.values[c] # <<>>

\* C6 as stated: every row in which a required column is absent or empty
\* is an error whose message names that column, and creates nothing.
C6_MissingRequiredAlwaysError ==
    Handled =>
      \A required \in MissingRequired(target, last_row.values) :
         /\ outcome.kind = "error"
         /\ Contains(outcome.message, required)

\* C6 (amended): a row that is not entirely empty-valued and in which a
\* required column is absent or empty fails with an error whose message
\* names one of the absent or empty required columns; the error is
\* retained in errors while fewer than 50 are held, and no record is
\* created for the row.
C6_MissingRequiredIsError ==
    /\ [](( /\ Handled
            /\ ~AllBlank(last_row.values)
            /\ MissingRequired(target, last_row.values) # {} ) =>
           /\ outcome.kind = "error"
           /\ outcome.row_number = last_row.line_number
           /\ \E required \in MissingRequired(target, last_row.values) :
                 Contains(outcome.message, required)
           /\ errored <= MAX_ERRORS_REPORTED =>
                errors[Len(errors)] = RowError(last_row.line_number, outcome.message,
                                               last_row.values))
    /\ [][( /\ InLoop
            /\ ~AllBlank(parsed_row.values)
            /\ MissingRequired(target, parsed_row.values) # {} ) =>
           (created' = created /\ store' = store /\ skipped' = skipped)]_vars

C6_Witness ==
    /\ Handled
    /\ ~AllBlank(last_row.values)
    /\ Cardinality(MissingRequired(target, last_row.values)) = 2
    /\ outcome.kind = "error"
    /\ Contains(outcome.message, <<"i","t","e","m","_","n","a","m","e">>)
    /\ errors # <<>>

\* The foreign-key column of a child target and the key it holds.
IsChildTarget(key) ==
    \E i \in 1..Len(ModelFields(ImportTarget(key).model)) :
        ModelFields(ImportTarget(key).model)[i].kind = "ForeignKey"

\* Does the row hold a well-formed farmer key that matches no Farmer?
DanglingKey(values, st) ==
    /\ <<"f","a","r","m","e","r","_","i","d">> \in DOMAIN values
    /\ ~is_empty(values[<<"f","a","r","m","e","r","_","i","d">>])
    /\ parse_uuid(values[<<"f","a","r","m","e","r","_","i","d">>]).ok
    /\ ~Exists(st, "Farmer", parse_uuid(values[<<"f","a","r","m","e","r","_","i","d">>]).value)

NamesRelation(message, raw_value) ==
    /\ Contains(message, <<"F","a","r","m","e","r">>)
    /\ Contains(message, <<"f","a","r","m","e","r","_","i","d">>)
    /\ Contains(message, raw_value)

\* The mapped columns before the foreign-key column whose conversion fails.
FailsBeforeKey(key, values) ==
    LET t == ImportTarget(key)
    IN \E k \in 1..Len(t.field_map) :
          /\ \A j \in 1..k : t.field_map[j][1] # <<"f","a","r","m","e","r","_","i","d">>
          /\ t.field_map[k][1] \in DOMAIN values
          /\ ~is_empty(values[t.field_map[k][1]])
          /\ ~convert_value(get_field(t.model, t.field_map[k][2]),
                            values[t.field_map[k][1]]).ok

\* C7 as stated: one row of a child target whose foreign-key column holds
\* a well-formed key of no existing parent gives created = 0 and exactly
\* one RowError naming the related type, the key field and the value.
C7_DanglingKeyAlwaysNamed ==
    ( /\ pc = "done"
      /\ Len(parsed_rows) = 1
      /\ IsChildTarget(target)
      /\ DanglingKey(parsed_rows[1].values, store_before) ) =>
        /\ summary.created = 0
        /\ error_count(summary) = 1
        /\ NamesRelation(summary.errors[1].message, parsed_rows[1].values[<<"f","a","r","m","e","r","_","i","d">>])

\* C7 (amended): as stated, provided the row's required columns are all
\* non-empty and no mapped column that precedes the foreign-key column in
\* the field map fails conversion.
C7_DanglingKeyNamed ==
    ( /\ pc = "done"
      /\ Len(parsed_rows) = 1
      /\ IsChildTarget(target)
      /\ DanglingKey(parsed_rows[1].values, store_before)
      /\ MissingRequired(target, parsed_rows[1].values) = {}
      /\ ~FailsBeforeKey(target, parsed_rows[1].values) ) =>
        /\ summary.created = 0
        /\ summary.skipped = 0
        /\ error_count(summary) = 1
        /\ summary.errors[1].row_number = parsed_rows[1].line_number
        /\ NamesRelation(summary.errors[1].message, parsed_rows[1].values[<<"f","a","r","m","e","r","_","i","d">>])
        /\ store = store_before

C7_Witness ==
    /\ pc = "done"
    /\ Len(parsed_rows) = 1
    /\ target = "assets"
    /\ DanglingKey(parsed_rows[1].values, store_before)
    /\ MissingRequired(target, parsed_rows[1].values) = {}
    /\ error_count(summary) = 1
    /\ NamesRelation(summary.errors[1].message, UnknownKey)

\* C8: perform_import on land_holdings with the single row
\* {farmer_id: <a UUID of no Farmer>, category: "Seasonal"} returns
\* created = 0 and error_count = 1, and the error's message contains
\* the text 'Invalid pk'.
C8_InvalidPkMessage ==
    ( /\ pc = "done"
      /\ target = "land_holdings"
      /\ Len(parsed_rows) = 1
      /\ parsed_rows[1].values =
            (<<"f","a","r","m","e","r","_","i","d">> :> UnknownKey) @@ (<<"c","a","t","e","g","o","r","y">> :> <<"S","e","a","s","o","n","a","l">>) ) =>
        /\ summary.created = 0
        /\ error_count(summary) = 1
        /\ Contains(summary.errors[1].message, <<"I","n","v","a","l","i","d"," ","p","k">>)

\* The mapped, non-empty columns of a row whose conversion fails (for a
\* foreign-key column: the conversion to the referenced key type).
ConversionFailures(key, values) ==
    LET t == ImportTarget(key)
    IN { t.field_map[k][1] : k \in
           { k \in 1..Len(t.field_map) :
               /\ t.field_map[k][1] \in DOMAIN values
               /\ ~is_empty(values[t.field_map[k][1]])
               /\ LET field == get_field(t.model, t.field_map[k][2])
                  IN ~convert_value(IF field.kind = "ForeignKey"
                                    THEN PkField(field.related) ELSE field,
                                    values[t.field_map[k][1]]).ok } }

\* C9: a row that fails because a cell cannot be converted (a plain typed
\* column or the key of a foreign-key column) is an error whose message
\* starts with the name of the column the failure comes from.
C9_ConversionErrorPrefixed ==
    ( /\ Handled
      /\ MissingRequired(target, last_row.values) = {}
      /\ ConversionFailures(target, last_row.values) # {}
      /\ ~DanglingKey(last_row.values, store) ) =>
        /\ outcome.kind = "error"
        /\ \E column \in ConversionFailures(target, last_row.values) :
              StartsWith(outcome.message, <<"C","o","l","u","m","n"," ","'">> \o column \o <<"'",":"," ">>)

\* C10: when a row prepares to a payload and its save raises a
\* ValidationError or an IntegrityError, the loop goes on to the next row
\* with one more RowError for that row's number (unless 50 are held),
\* the created counter unchanged and the store unchanged.
SaveFails == InLoop /\ \E p \in Payloads : ~AfterSave(p).ok

C10_SaveFailureRecorded ==
    /\ [][SaveFails =>
            /\ pc' = "loop"
            /\ index' = index + 1
            /\ created' = created
            /\ skipped' = skipped
            /\ store' = store
            /\ outcome'.exc \in {"ValidationError", "IntegrityError"}
            /\ outcome'.message # <<>>
            /\ errors' = IF Len(errors) < 50
                         THEN Append(errors, RowError(parsed_row.line_number,
                                                      outcome'.message,
                                                      parsed_row.values))
                         ELSE errors]_vars
    /\ [](pc # "raised")

C10_Witness ==
    /\ pc = "done"
    /\ outcome.exc = "IntegrityError"
    /\ created > 0
    /\ error_count(summary) > 0
    /\ summary.errors[error_count(summary)].row_number = outcome.row_number
    /\ StartsWith(outcome.message, <<"C","H","E","C","K"," ","c","o","n","s","t","r","a","i","n","t"," ","f","a","i","l","e","d">>)

---------------------------------------------------------------------------
\* Properties of the import of one row (RowSpec).

AshaOfSolapur == (<<"n","a","m","e">> :> <<"A","s","h","a">>) @@ (<<"d","i","s","t","r","i","c","t">> :> <<"S","o","l","a","p","u","r">>)

\* What the cell of a mapped column converts to (for a foreign-key column:
\* the key of the related record).
Converted(m, field_name, raw_value) ==
    LET field == get_field(m, field_name)
    IN convert_value(IF field.kind = "ForeignKey" THEN PkField(field.related) ELSE field,
                     raw_value).value

\* C15: a row that passes preparation and persistence creates exactly one
\* new record; each of its fields holds the converted value of the mapped
\* column's cell, or the field's default when the column is absent or
\* empty.  The row {name: Asha, district: Solapur} on farmers gives
\* created = 1, skipped = 0, errors = [] and a Farmer Asha of Solapur.
C15_CreatedRecordHoldsRow ==
    /\ [][(InLoop /\ created' = created + 1) =>
            LET t == ImportTarget(target)
                values == parsed_row.values
                new == store'[t.model] \ store[t.model]
            IN /\ Cardinality(new) = 1
               /\ store[t.model] \subseteq store'[t.model]
               /\ \A m \in ModelNames \ {t.model} : store'[m] = store[m]
               /\ skipped' = skipped /\ errors' = errors /\ errored' = errored
               /\ \A inst \in new : \A k \in 1..Len(t.field_map) :
                    LET column == t.field_map[k][1]
                        name == t.field_map[k][2]
                    IN IF column \in DOMAIN values /\ ~is_empty(values[column])
                       THEN inst[name] = Converted(t.model, name, values[column])
                       ELSE IF get_field(t.model, name).primary_key
                            THEN /\ inst[name].tag = "UUID"
                                 /\ ~Exists(store, t.model, inst[name])
                            ELSE inst[name] = DefaultValue(get_field(t.model, name), 0)]_vars
    /\ []( ( /\ pc = "done"
             /\ target = "farmers"
             /\ parsed_rows = Number(<<AshaOfSolapur>>) ) =>
           /\ summary.created = 1
           /\ summary.skipped = 0
           /\ summary.errors = <<>>
           /\ \E farmer \in store["Farmer"] \ store_before["Farmer"] :
                /\ farmer[<<"n","a","m","e">>] = StrV(<<"A","s","h","a">>)
                /\ farmer[<<"d","i","s","t","r","i","c","t">>] = StrV(<<"S","o","l","a","p","u","r">>)
           /\ Cardinality(store["Farmer"]) = Cardinality(store_before["Farmer"]) + 1 )

C15_Witness ==
    /\ pc = "done"
    /\ target = "farmers"
    /\ parsed_rows = Number(<<AshaOfSolapur>>)
    /\ summary.created = 1
    /\ \E farmer \in store["Farmer"] : farmer[<<"n","a","m","e">>] = StrV(<<"A","s","h","a">>)

\* A cell the claim calls not provided: trimmed and case-folded, it is one
\* of "", na, n/a, null, none, nil, nan.
NotProvided(value) ==
    lower(strip(value)) \in { <<>>, <<"n","a">>, <<"n","/","a">>, <<"n","u","l","l">>, <<"n","o","n","e">>, <<"n","i","l">>, <<"n","a","n">> }

\* The row without its cells that are not provided.
ProvidedCells(values) ==
    [c \in {c \in DOMAIN values : ~NotProvided(values[c])} |-> values[c]]

\* C16: a cell of the empty-value vocabulary is treated as not provided.
\* The row is prepared as the row without that cell is: in a mapped column
\* that is not required the cell is left out of the payload and is never
\* converted, so no error names its column and the record gets the
\* field's default; in a required column it counts as missing.
C16_VocabularyIsNotProvided ==
    [][InLoop =>
         LET t == ImportTarget(target)
             values == parsed_row.values
             absent == {c \in DOMAIN values : NotProvided(values[c])}
             new == store'[t.model] \ store[t.model]
         IN /\ Prepared = prepare_row(t, ProvidedCells(values), store)
            /\ \A p \in Prepared : \A k \in 1..Len(t.field_map) :
                 t.field_map[k][1] \in absent =>
                   /\ p.kind = "return" => t.field_map[k][2] \notin DOMAIN p.payload
                   /\ p.kind = "raise" =>
                        ~StartsWith(p.message, <<"C","o","l","u","m","n"," ","'">> \o t.field_map[k][1] \o <<"'">>)
            /\ \A inst \in new : \A k \in 1..Len(t.field_map) :
                 ( /\ t.field_map[k][1] \in absent
                   /\ ~get_field(t.model, t.field_map[k][2]).primary_key ) =>
                     inst[t.field_map[k][2]]
                       = DefaultValue(get_field(t.model, t.field_map[k][2]), 0)
            /\ absent = DOMAIN values => outcome'.kind = "skip"
            /\ ( /\ absent # DOMAIN values
                 /\ absent \cap t.required # {} ) =>
                   /\ outcome'.kind = "error"
                   /\ \E required \in t.required \ DOMAIN ProvidedCells(values) :
                        outcome'.message =
                          <<"M","i","s","s","i","n","g"," ","v","a","l","u","e"," ","f","o","r"," ","r","e","q","u","i","r","e","d"," ","c","o","l","u","m","n"," ","'">> \o required \o <<"'">>]_vars

C16_Witness ==
    /\ pc = "done"
    /\ target = "land_holdings"
    /\ <<"t","o","t","a","l","_","a","r","e","a","_","h","a">> \in DOMAIN parsed_rows[1].values
    /\ parsed_rows[1].values[<<"t","o","t","a","l","_","a","r","e","a","_","h","a">>] = <<"N","A">>
    /\ summary.created = 1
    /\ \E holding \in store["LandHolding"] : holding[<<"t","o","t","a","l","_","a","r","e","a","_","h","a">>] = NoneV

---------------------------------------------------------------------------
\* Properties of the two parsers (ParseSpec).

\* A call has returned or raised.
Called(fn) == call.fn = fn /\ returned.kind # "none"

Parsed == Called("parse_uploaded_file") \/ Called("parse_csv")

\* The data lines of the uploaded text, each with its number in the file
\* (the header is line 1).
DataLinesOf(raw_bytes) == Tail(reader(decode(raw_bytes)))

\* A line whose cells are all empty or hold only whitespace.
BlankCells(cells) ==
    \A i \in 1..Len(cells) : \A j \in 1..Len(cells[i]) : cells[i][j] \in WhitespaceChars

NoHeader(raw_bytes) ==
    LET text == decode(raw_bytes)
    IN text = <<>> \/ Head(text) = "\n"

RECURSIVE NonBlank(_)
NonBlank(records) ==
    IF records = <<>> THEN <<>>
    ELSE IF BlankCells(Head(records).cells) THEN NonBlank(Tail(records))
         ELSE <<Head(records)>> \o NonBlank(Tail(records))

\* C12: in both parsers a data row whose cells are all empty or whitespace
\* is dropped: the returned rows are the data rows that are not of this
\* kind, row_count is their number, and a file whose data rows are all of
\* this kind is rejected as having no data rows.
C12_BlankRowsDropped ==
    Parsed /\ call.arg # <<>> /\ Decodable(call.arg) /\ ~NoHeader(call.arg) =>
        LET kept == NonBlank(DataLinesOf(call.arg))
        IN IF kept = <<>>
           THEN returned = Raises(<<"N","o"," ","d","a","t","a"," ","r","o","w","s"," ","w","e","r","e"," ","d","e","t","e","c","t","e","d"," ","i","n"," ","t","h","e"," ","u","p","l","o","a","d","e","d"," ","f","i","l","e",".">>)
           ELSE /\ returned.kind = "return"
                /\ row_count(returned.value) = Len(kept)
                /\ \A i \in 1..Len(returned.value.rows) :
                     returned.value.rows[i].values =
                         normalised_row(fieldnames(reader(decode(call.arg))),
                                        kept[i].cells)

\* The data lines a parser keeps: the ones its result has a row for.
RECURSIVE Kept(_, _)
Kept(records, strip_first) ==
    IF records = <<>> THEN <<>>
    ELSE IF \E i \in 1..Len(Head(records).cells) :
                meaningful(Head(records).cells[i], strip_first)
         THEN <<Head(records)>> \o Kept(Tail(records), strip_first)
         ELSE Kept(Tail(records), strip_first)

\* C13: the line_number of every ParsedRow is the 1-based number of the
\* row's line in the file (header 1, first data line 2), also after empty
\* lines and dropped blank rows.
C13_LineNumberIsSourcePosition ==
    Parsed /\ returned.kind = "return" =>
        LET kept == Kept(DataLinesOf(call.arg), call.fn = "parse_uploaded_file")
        IN /\ Len(returned.value.rows) = Len(kept)
           /\ \A i \in 1..Len(kept) :
                returned.value.rows[i].line_number = kept[i].line_num

---------------------------------------------------------------------------
\* Properties of the conversion functions (ConvertSpec).

SpelledAs(value, words) == \E word \in words : value \in CaseVariants(word)

\* C17: parse_boolean gives true for every spelling, in any letter case, of
\* true, 1, yes, y, t; false for every spelling of false, 0, no, n, f; and
\* raises a conversion error naming the value for anything else
\* ('Y' is true, '0' is false, 'maybe' is an error).
C17_BooleanTotal ==
    Called("parse_boolean") =>
        LET truthy == SpelledAs(call.arg, { <<"t","r","u","e">>, <<"1">>, <<"y","e","s">>, <<"y">>, <<"t">> })
            falsy == SpelledAs(call.arg, { <<"f","a","l","s","e">>, <<"0">>, <<"n","o">>, <<"n">>, <<"f">> })
        IN /\ truthy => returned = Returns(BoolV(TRUE))
           /\ falsy => returned = Returns(BoolV(FALSE))
           /\ ~truthy /\ ~falsy =>
                /\ returned.kind = "raise"
                /\ Contains(returned.message, repr(call.arg))
           /\ call.arg = <<"Y">> => returned = Returns(BoolV(TRUE))
           /\ call.arg = <<"0">> => returned = Returns(BoolV(FALSE))
           /\ call.arg = <<"m","a","y","b","e">> => returned.kind = "raise"

C17_Witness ==
    /\ Called("parse_boolean")
    /\ call.arg = <<"Y","e","S">>
    /\ returned = Returns(BoolV(TRUE))

\* C18: parse_date reads a value under the first of YYYY-MM-DD, DD-MM-YYYY,
\* DD/MM/YYYY that matches it: a calendar date written in any of the three
\* gives that date ('2024-01-31', '31-01-2024' and '31/01/2024' give the same
\* date), and a value that matches none of them ('2024/13/40') is rejected
\* with a conversion error.
C18_DateFormats ==
    Called("parse_date") =>
        /\ call.arg \in { <<"2","0","2","4","-","0","1","-","3","1">>, <<"3","1","-","0","1","-","2","0","2","4">>, <<"3","1","/","0","1","/","2","0","2","4">> }
             => returned = Returns(DateV(2024, 1, 31))
        /\ call.arg \in { <<"2","0","2","4","/","1","3","/","4","0">>, <<"2","0","2","4","/","0","1","/","3","1">>, <<"3","1",".","0","1",".","2","0","2","4">>,
                          <<"2","4","-","0","1","-","3","1">>, <<"2","0","2","4","0","1","3","1">>, <<"3","1","-","0","1","/","2","0","2","4">> }
             => returned.kind = "raise"
        /\ \A year \in SampleYears, month \in 1..12, day \in SampleDays,
              f \in 1..Len(DATE_FORMATS), padded \in BOOLEAN :
             call.arg = WriteDate(year, month, day, DATE_FORMATS[f], padded) =>
                 IF day <= DaysInMonth(year, month)
                 THEN returned = Returns(DateV(year, month, day))
                 ELSE returned.kind = "raise"
        /\ \A f \in 1..Len(DATE_FORMATS) :
             /\ strptime(call.arg, DATE_FORMATS[f]).ok
             /\ \A g \in 1..(f - 1) : ~strptime(call.arg, DATE_FORMATS[g]).ok
             => returned = Returns(strptime(call.arg, DATE_FORMATS[f]).value)
        /\ (\A f \in 1..Len(DATE_FORMATS) : ~strptime(call.arg, DATE_FORMATS[f]).ok)
             => returned.kind = "raise"

C18_Witness ==
    /\ Called("parse_date")
    /\ call.arg = <<"3","1","/","0","1","/","2","0","2","4">>
    /\ returned = Returns(DateV(2024, 1, 31))

\* C19: the error of parse_date for a value that matches no format names
\* all three expected formats, YYYY-MM-DD, DD-MM-YYYY and DD/MM/YYYY.
C19_ErrorNamesAllFormats ==
    Called("parse_date") /\ returned.kind = "raise" =>
        /\ Contains(returned.message, <<"Y","Y","Y","Y","-","M","M","-","D","D">>)
        /\ Contains(returned.message, <<"D","D","-","M","M","-","Y","Y","Y","Y">>)
        /\ Contains(returned.message, <<"D","D","/","M","M","/","Y","Y","Y","Y">>)

\* C20: normalise_header is idempotent, and what it gives for any header
\* (empty and None included) holds only lower-case letters, digits and
\* single underscores, none of them leading or trailing.
C20_NormaliseIdempotent ==
    Called("normalise_header") =>
        LET h == returned.value
        IN /\ returned.kind = "return"
           /\ normalise_header(h) = h
           /\ \A i \in 1..Len(h) :
                \/ IsDigit(h[i])
                \/ \E k \in 1..26 : LowerLetters[k] = h[i]
                \/ h[i] = "_"
           /\ \A i \in 1..(Len(h) - 1) : ~(h[i] = "_" /\ h[i + 1] = "_")
           /\ h # <<>> => h[1] # "_" /\ h[Len(h)] # "_"
           /\ call.arg = None => h = <<>>

C20_Witness ==
    /\ Called("normalise_header")
    /\ call.arg = <<"Z", "-", " ", "a">>
    /\ returned.value = <<"z","_","a">>

---------------------------------------------------------------------------
\* Properties of the bulk import wizard (WizardSpec).

\* The stored upload lacks a required column of its target.
LacksRequiredColumn ==
    /\ session.stored
    /\ missing_columns(ImportTarget(session.target), session) # {}

\* C14: a confirm request on a stored upload whose columns lack a required
\* column of the selected target runs no import: the records and the key
\* draws are as before, the stored upload is kept, and the answer is the
\* preview page with the message that required columns are missing, the
\* missing columns listed and no import reported as complete.
C14_MissingColumnsBlockImport ==
    [][(LacksRequiredColumn /\ response'.request = "POST confirm")
       => /\ store' = store
          /\ uuid4_calls' = uuid4_calls
          /\ session' = session
          /\ response'.kind = "render"
          /\ response'.to = "import_wizard_preview.html"
          /\ response'.message = <<"R","e","q","u","i","r","e","d"," ","c","o","l","u","m","n","s"," ","a","r","e"," ","m","i","s","s","i","n","g","."," ","U","p","d","a","t","e"," ","t","h","e"," ","f","i","l","e"," ","a","n","d"," ","t","r","y"," ","a","g","a","i","n",".">>
          /\ response'.missing_columns # {}
          /\ ~response'.import_complete]_vars

C14_Witness ==
    /\ LacksRequiredColumn
    /\ response.request = "POST confirm"
    /\ response.message = <<"R","e","q","u","i","r","e","d"," ","c","o","l","u","m","n","s"," ","a","r","e"," ","m","i","s","s","i","n","g","."," ","U","p","d","a","t","e"," ","t","h","e"," ","f","i","l","e"," ","a","n","d"," ","t","r","y"," ","a","g","a","i","n",".">>
    /\ response.missing_columns = {<<"F","a","r","m","e","r"," ","i","d">>, <<"I","t","e","m"," ","n","a","m","e">>}

\* The answer to an upload that failed: the upload form again.
UploadFailed(r) == r.request = "POST import" /\ r.kind = "render"

\* C25: an upload that fails (the form is invalid, the target is not a
\* registered key, or the file does not parse) changes nothing: the upload
\* form is rendered again, no record is created, no key is drawn, and the
\* session's stored upload is what it was before the attempt.
C25_FailedUploadFailsClosed ==
    [][UploadFailed(response')
       => /\ session' = session
          /\ store' = store
          /\ uuid4_calls' = uuid4_calls
          /\ response'.to = "import_wizard_upload.html"]_vars

C25_Witness ==
    /\ UploadFailed(response)
    /\ response.message = <<"N","o"," ","d","a","t","a"," ","r","o","w","s"," ","w","e","r","e"," ","d","e","t","e","c","t","e","d"," ","i","n"," ","t","h","e"," ","u","p","l","o","a","d","e","d"," ","f","i","l","e",".">>
    /\ session.stored
    /\ session.target = "assets"
    /\ Len(session.rows) = 1

\* The requests of the preview step.
PreviewRequests == {"GET preview", "POST confirm", "POST cancel"}

\* C26: a stored upload is imported at most once.  A confirm that runs the
\* import clears the stored upload; a cancel clears it and creates nothing;
\* and with no upload stored every preview, confirm or cancel request
\* creates nothing, stores nothing and redirects to the upload step.
C26_ImportedAtMostOnce ==
    [][/\ (response'.request = "POST confirm" /\ response'.import_complete)
            => ~session'.stored
       /\ response'.request = "POST cancel"
            => (~session'.stored /\ store' = store /\ uuid4_calls' = uuid4_calls)
       /\ (~session.stored /\ response'.request \in PreviewRequests)
            => /\ store' = store
               /\ uuid4_calls' = uuid4_calls
               /\ ~session'.stored
               /\ response'.kind = "redirect"
               /\ response'.to = "pmksy:import"]_vars

C26_Witness ==
    /\ ~session.stored
    /\ response.request = "POST confirm"
    /\ response.kind = "redirect"
    /\ uuid4_calls = 1
    /\ \E m \in ModelNames : Cardinality(store[m]) = 2

---------------------------------------------------------------------------
\* Properties of imports that supply primary keys (KeyedSpec).

\* The row the loop body is about to handle supplies, in the column of the
\* target's own primary key, the key of a record of the target's model.
SuppliesTakenKey ==
    /\ InLoop
    /\ LET m == ImportTarget(target).model
           cell == RowGet(parsed_row.values, PkField(m).name)
       IN /\ ~is_empty(cell)
          /\ parse_uuid(cell).ok
          /\ \E r \in store[m] : r[PkField(m).name] = parse_uuid(cell).value

\* C27: a row whose own primary-key column holds the key of a record that
\* exists (before the import, or created by an earlier row of the batch) is
\* an error of that row: it is retained as a RowError with the row's number,
\* no record is added, removed or changed, and created is not incremented.
C27_TakenKeyIsError ==
    [][(SuppliesTakenKey /\ index' = index + 1)
       => /\ store' = store
          /\ created' = created
          /\ skipped' = skipped
          /\ outcome'.kind = "error"
          /\ Len(errors) < MAX_ERRORS_REPORTED
               => /\ Len(errors') = Len(errors) + 1
                  /\ errors'[Len(errors')].row_number = parsed_row.line_number
                  /\ errors'[Len(errors')].values = parsed_row.values]_vars

\* The second row of a batch repeats the key under which the first row was
\* created, and is refused.
C27_Witness ==
    /\ pc = "done"
    /\ target = "farmers"
    /\ Len(parsed_rows) = 2
    /\ summary.created = 1
    /\ Len(summary.errors) = 1
    /\ summary.errors[1].row_number = 3
    /\ summary.errors[1].message = <<"f","a","r","m","e","r","_","i","d",":"," ","F","a","r","m","e","r"," ","w","i","t","h"," ","t","h","i","s"," ","F","a","r","m","e","r"," ","i","d"," ","a","l","r","e","a","d","y"," ","e","x","i","s","t","s",".">>
    /\ store_before["Farmer"] = {}

---------------------------------------------------------------------------
\* Properties of a parsed upload handed to the importer (UploadSpec).

\* A data line whose cells are all non-empty tokens of the empty-value
\* vocabulary, in any letter case and padding.
VocabularyLine(record) ==
    \A i \in 1..Len(record.cells) :
        /\ strip(record.cells[i]) # <<>>
        /\ lower(strip(record.cells[i])) \in EMPTY_STRINGS

\* The data lines of the file the parser was called with.
UploadedLines == DataLinesOf(call.arg)

VocabularyLines == {i \in 1..Len(UploadedLines) : VocabularyLine(UploadedLines[i])}

DroppedLines == {i \in 1..Len(UploadedLines) : BlankCells(UploadedLines[i].cells)}

\* The row perform_import is about to handle is a vocabulary line.
VocabularyRow ==
    /\ InLoop
    /\ \A c \in DOMAIN parsed_row.values :
         /\ parsed_row.values[c] # <<>>
         /\ lower(parsed_row.values[c]) \in EMPTY_STRINGS

\* C28: the parser keeps a data row whose cells are all non-empty tokens of
\* the empty-value vocabulary: with such a row the file has data rows, and
\* row_count counts every data row but the dropped ones (all cells empty or
\* whitespace).  perform_import then skips each such row, creating and
\* recording nothing for it, and total_rows is the parser's row_count, so a
\* row the parser dropped is never counted.
C28_ParserKeepsWhatImporterSkips ==
    /\ [](Called("parse_uploaded_file") /\ VocabularyLines # {}
            => /\ returned.kind = "return"
               /\ row_count(returned.value)
                    = Len(UploadedLines) - Cardinality(DroppedLines)
               /\ row_count(returned.value) >= Cardinality(VocabularyLines))
    /\ [](pc = "done"
            => /\ summary.total_rows = row_count(returned.value)
               /\ summary.total_rows = Len(UploadedLines) - Cardinality(DroppedLines)
               /\ summary.skipped >= Cardinality(VocabularyLines))
    /\ [][(VocabularyRow /\ index' = index + 1)
            => /\ skipped' = skipped + 1
               /\ created' = created
               /\ errors' = errors
               /\ store' = store
               /\ outcome'.kind = "skip"]_vars

\* A file of a dropped row and a vocabulary row: one row, skipped.
C28_Witness ==
    /\ pc = "done"
    /\ Len(UploadedLines) = 2
    /\ Cardinality(DroppedLines) = 1
    /\ Cardinality(VocabularyLines) = 1
    /\ summary.total_rows = 1
    /\ summary.skipped = 1
    /\ summary.created = 0
    /\ summary.errors = <<>>

\* The survey wizard: the request a handler has just answered, the farmer
\* its session named before, and the records a farmer has in a table.
posted == call'.arg
session_farmer == get_farmer(wizard, Tables).farmer
Keys(m, records) == {r[PkName(m)] : r \in records}

\* The posted fields of a record: the record without its key and farmer.
Submitted(m, r) ==
    [name \in {base_fields(m)[i].name : i \in 1..Len(base_fields(m))} |-> r[name]]

\* The sub-forms of a formset that carry data and are not marked for
\* deletion.
CarriesData(m, subforms) ==
    {j \in 1..Len(subforms) :
        ~subforms[j].DELETE /\ BoundForm(m, subforms[j].data).has_changed}

\* The step of C21.
FarmerStepPersists ==
    (call'.fn = "POST farmer" /\ BoundForm("Farmer", posted.form).is_valid)
       => /\ wizard' # NoFarmer
          /\ \E r \in store'["Farmer"] :
               /\ str_of_uuid(r[PkName("Farmer")]) = wizard'
               /\ r[<<"n","a","m","e">>] = BoundForm("Farmer", posted.form).cleaned_data[<<"n","a","m","e">>]
          /\ IF session_farmer # NoneV
             THEN /\ wizard' = wizard
                  /\ Keys("Farmer", store'["Farmer"]) = Keys("Farmer", store["Farmer"])
             ELSE /\ Keys("Farmer", store["Farmer"]) \subseteq Keys("Farmer", store'["Farmer"])
                  /\ Cardinality(store'["Farmer"]) = Cardinality(store["Farmer"]) + 1

\* C21: a valid submission of the farmer step persists a Farmer holding the
\* submitted data and binds the session to it; a session that is not bound
\* gets exactly one new Farmer, and a bound session keeps its Farmer, which
\* is updated, and no Farmer is added.
C21_OneFarmerPerSession == [][FarmerStepPersists]_vars

\* C21, a valid submission of the farmer step that is not answered by a
\* server error does all of this.
C21_UnlessServerError ==
    [][response' = ServerError(call'.fn) \/ FarmerStepPersists]_vars

\* The step of C22.
StepAdvancesIffValid ==
    \A k \in 1..Len(STEP_ORDER) :
         (/\ call'.fn = "POST " \o STEP_ORDER[k]
          /\ ~(posted.prev /\ k > 1)
          /\ k > 1 => session_farmer # NoneV)
         => /\ step_is_valid(posted)
               <=> response' = IF k < Len(STEP_ORDER)
                               THEN Redirect(call'.fn, STEP_ORDER[k + 1])
                               ELSE Render(call'.fn, "pmksy/wizard_done.html")
            /\ ~step_is_valid(posted)
               => /\ response' = Render(call'.fn, "pmksy/wizard_form.html")
                  /\ store' = store
                  /\ survey_records' = survey_records

\* C22: a POST to step k without "_prev", with a farmer bound on the steps
\* after the first, is answered by the redirect to step k + 1 (by the
\* success page on the last step) if and only if the step's form and all
\* its formsets are valid; an invalid one is answered by step k rendered
\* again and leaves every record as it was.
C22_AdvancesIffValid == [][StepAdvancesIffValid]_vars

\* C22, a POST that is not answered by a server error advances if and only
\* if it is valid.
C22_UnlessServerError ==
    [][response' = ServerError(call'.fn) \/ StepAdvancesIffValid]_vars

\* The step of C23.
FormsetsReplaceRecords ==
    \A k \in 2..Len(STEP_ORDER) :
         LET step == STEP_ORDER[k]
             keys == step_formsets(step)
             models == {formset_model(keys[i]) : i \in 1..Len(keys)}
         IN (/\ call'.fn = "POST " \o step
             /\ ~posted.prev
             /\ session_farmer # NoneV
             /\ step_is_valid(posted))
            => /\ \A i \in 1..Len(keys) :
                    LET m == formset_model(keys[i])
                        subforms == posted.formsets[keys[i]]
                        records == related_records(Tables', m, session_farmer)
                    IN /\ Cardinality(records) = Cardinality(CarriesData(m, subforms))
                       /\ {Submitted(m, r) : r \in records}
                          = {BoundForm(m, subforms[j].data).cleaned_data :
                               j \in CarriesData(m, subforms)}
               /\ \A m \in models :
                    {r \in Tables'[m] : r[farmer_fk] # session_farmer}
                    = {r \in Tables[m] : r[farmer_fk] # session_farmer}
               /\ \A m \in AllModels \ (models \cup {step_form(step)}) :
                    Tables'[m] = Tables[m]

\* C23: after a valid POST without "_prev" to a step with formsets, the
\* session farmer's records of each formset of the step are the sub-forms
\* that carry data and are not marked for deletion, one record each, with
\* the cleaned data of the sub-form; the records of other farmers and the
\* tables of the other steps are as before.
C23_FormsetsReplaceRecords == [][FormsetsReplaceRecords]_vars

\* C23, a valid POST that is not answered by a server error replaces the
\* records of the step's formsets.
C23_UnlessServerError ==
    [][response' = ServerError(call'.fn) \/ FormsetsReplaceRecords]_vars

\* C24: after a valid POST without "_prev" to the resilience step the
\* session farmer has exactly one FinancialRecord, however many the farmer
\* had before, and the session names no farmer.
C24_OneFinancialRecord ==
    [][(/\ call'.fn = "POST resilience"
        /\ ~posted.prev
        /\ session_farmer # NoneV
        /\ step_is_valid(posted))
       => /\ Cardinality(related_records(Tables', "FinancialRecord", session_farmer)) = 1
          /\ wizard' = NoFarmer]_vars

\* The success page answers a resilience step; the farmer, of the first
\* key drawn, had FinancialRecords of the second and third key, and the one
\* left is the one of the second key with the posted loan.
C24_Witness ==
    /\ call.fn = "POST resilience"
    /\ response = Render(call.fn, "pmksy/wizard_done.html")
    /\ wizard = NoFarmer
    /\ uuid4_calls = 3
    /\ Keys("Farmer", store["Farmer"]) \ {Rahul[PkName("Farmer")]} = {uuid4(0)}
    /\ \E r \in survey_records["FinancialRecord"] :
         /\ related_records(Tables, "FinancialRecord", uuid4(0)) = {r}
         /\ r[PkName("FinancialRecord")] \in {uuid4(1), uuid4(2)}
         /\ r[<<"l","o","a","n">>] = BoolV(TRUE)

====
